---- MODULE Spec2Model ----
(***************************************************************************)
(* Model of the persistence and domain-service layer of the Synapse        *)
(* knowledge manager: the relational rows (notes, blocks, folders, tags,   *)
(* links, attachments, note_folders), the note content files, and the      *)
(* service / DAO operations that change them.                              *)
(*                                                                         *)
(* Identifiers ("note-<uuid>", ...) are modelled as positive integers      *)
(* drawn from per-kind counters (a v4 uuid is never reused); NULL is 0.    *)
(* Strings whose characters matter (titles, contents) are tuples of        *)
(* one-character strings.  Timestamps are readings of the clock `now`.     *)
(***************************************************************************)
EXTENDS Integers, Sequences, FiniteSets, TLC

----------------------------------------------------------------------------
(* Bounds of the model *)

MaxNotes == 2            \* notes created in SpecRel, SpecLinks
MaxClock == 2            \* last reading of the clock (the first is 1)
MaxTripNotes == 1        \* notes created in SpecNotes
MaxContentLen == 3       \* longest content in SpecContent
MaxContentNotes == 1     \* notes created in SpecContent
MaxRelFolders == 2       \* folders created in SpecRel
MaxTreeFolders == 2      \* folders created in SpecFolders
MaxTreeNotes == 1        \* notes created in SpecFolders
MaxTags == 3             \* tags created in SpecTags
MaxAttachments == 3      \* attachment ids in SpecAttach
MaxBlocks == 2           \* blocks created in SpecLinks
MaxLinks == 1            \* links created in SpecLinks
MaxPathFolders == 3      \* folders created in SpecPaths
MaxDocNotes == 1         \* notes created in SpecBlocks
MaxDocBlocks == 1        \* blocks created in SpecBlocks
MaxListBlocks == 1       \* blocks created in SpecLinkList
MaxListLinks == 2        \* links created in SpecLinkList
MaxJnFolders == 2        \* folders created in SpecJunction
MaxJnTags == 1           \* tags created in SpecJunction
MaxRefBlocks == 2        \* blocks created in SpecRefs
MaxRefs == 1             \* block references created in SpecRefs
MaxTitleLen == 3         \* longest short title in SpecSlug
MaxBufLen == 2           \* characters in the editor buffer
MaxHistory == 2          \* edits recorded on the editor's undo stack
MaxEvents == 4           \* events fed to one parse_markdown_to_blocks call

(* SQL NULL / Option::None for identifier and timestamp columns *)
NULL == 0

(* take(50) in slugify *)
SlugCap == 50

VARIABLES
    now,            \* the wall clock (chrono::Utc::now().timestamp())
    notes,          \* table notes: id -> row
    files,          \* data_dir: content_path -> file content
    blocks,         \* table blocks: id -> row
    folders,        \* table folders: id -> row
    tags,           \* table tags: id -> row
    attachments,    \* table attachments: id -> row
    note_folders,   \* table note_folders: <<note_id, folder_id>> -> row
    note_tags,      \* table note_tags: set of <<note_id, tag_id>>
    links,          \* table links: id -> row
    nextId,         \* next fresh uuid per kind
    last,           \* the last call: operation, arguments, result
    trip,           \* progress of a delete -> restore round trip of one note
    fts,            \* the index of notes_fts and blocks_fts: rowid -> terms
    held,           \* a block record a caller read earlier and still holds
    schema,         \* the tables, virtual tables and indexes of the store
    schema_version, \* table schema_version: the set of version keys
    block_references, \* table block_references, in insertion order
    cmd,            \* the update_note commands in flight: position and locals
    editor,         \* one EditorCore: buffer, cursor, selection, both stacks
    parse           \* one parse_markdown_to_blocks call: its locals

vars == <<now, notes, files, blocks, folders, tags, attachments,
          note_folders, note_tags, links, nextId, last, trip, fts, held,
          schema, schema_version, block_references, cmd, editor, parse>>

----------------------------------------------------------------------------
(* Input domains *)

NoteIds == 1..MaxNotes

Chars == {"a", " ", "\n"}

RECURSIVE SeqsUpTo(_, _)
SeqsUpTo(S, n) ==
    IF n = 0 THEN {<<>>}
    ELSE LET shorter == SeqsUpTo(S, n - 1)
         IN  shorter \cup {Append(s, c) : s \in shorter, c \in S}

Contents == SeqsUpTo(Chars, MaxContentLen)
FewContents == {<<>>, <<"a", " ", "a">>}
Titles == {<<"H", "i", "!">>, <<"a", " ", "-", "b">>}
OneTitle == {<<"H", "i", "!">>}
Names == {"Rust", "rust", "go"}
Hashes == {"h1", "h2", "h3"}
FileNames == {"a.png", "b.png"}
Positions == {0, 1}

None == [some |-> FALSE]
Some(v) == [some |-> TRUE, v |-> v]

NoTrip == [stage |-> "none"]

(* f with key k removed / with k bound to v *)
Without(f, ks) == [k \in DOMAIN f \ ks |-> f[k]]
With(f, k, v) == [x \in DOMAIN f \cup {k} |-> IF x = k THEN v ELSE f[x]]

----------------------------------------------------------------------------
(* Pure helpers of NoteService *)

IsWhitespace(c) == c \in {" ", "\n", "\t"}

(* content.split_whitespace().count(): scan left to right, a token starts
   at a non-whitespace character met while outside a token *)
RECURSIVE CountFrom(_, _, _)
CountFrom(s, i, inTok) ==
    IF i > Len(s) THEN 0
    ELSE IF IsWhitespace(s[i]) THEN CountFrom(s, i + 1, FALSE)
    ELSE (IF inTok THEN 0 ELSE 1) + CountFrom(s, i + 1, TRUE)

(* the same with split(' '): separators are single spaces, empty pieces count *)
count_words_split_space(content) ==
    1 + Cardinality({i \in 1..Len(content) : content[i] = " "})

count_words(content) == CountFrom(content, 1, FALSE)

LowerMap == [H |-> "h", A |-> "a", B |-> "b"]
to_lowercase(c) == IF c \in DOMAIN LowerMap THEN LowerMap[c] ELSE c
is_alphanumeric(c) == c \in {"a", "b", "h", "i", "A", "B", "H", "0", "1"}

(* fold(String::new(), |acc, c| if !acc.ends_with('-') || c != '-' { push }):
   acc ends with '-' exactly when the character before c was '-' (it was
   either pushed, or skipped because acc already ended with '-'), so c is
   pushed iff it is not a '-' that follows a '-'. *)
Collapse(acc, s) ==
    LET before(i) == IF i > 1 THEN s[i - 1]
                     ELSE IF acc = <<>> THEN "" ELSE acc[Len(acc)]
        steps == [i \in 1..Len(s) |->
                    [c |-> s[i], pushed |-> before(i) # "-" \/ s[i] # "-"]]
        pushed == SelectSeq(steps, LAMBDA st : st.pushed)
    IN  acc \o [i \in 1..Len(pushed) |-> pushed[i].c]

RECURSIVE TrimStart(_)
TrimStart(s) ==
    IF s # <<>> /\ Head(s) = "-" THEN TrimStart(Tail(s)) ELSE s

RECURSIVE TrimEnd(_)
TrimEnd(s) ==
    IF s # <<>> /\ s[Len(s)] = "-" THEN TrimEnd(SubSeq(s, 1, Len(s) - 1)) ELSE s

slugify(title) ==
    LET lowered == [i \in 1..Len(title) |-> to_lowercase(title[i])]
        mapped == [i \in 1..Len(lowered) |->
                     IF is_alphanumeric(lowered[i]) \/ lowered[i] \in {"-", "_"}
                     THEN lowered[i] ELSE "-"]
        trimmed == TrimEnd(TrimStart(Collapse(<<>>, mapped)))
    IN  SubSeq(trimmed, 1, IF Len(trimmed) < SlugCap THEN Len(trimmed) ELSE SlugCap)

----------------------------------------------------------------------------
(* Notes: models, DAO, service *)

Note_new(title, content_path) ==
    [title |-> title, content_path |-> content_path,
     created_at |-> now, updated_at |-> now, word_count |-> 0,
     is_deleted |-> FALSE, deleted_at |-> NULL]

(* a lookup that never adds "AND is_deleted = 0" *)
NoteDao_get_by_id_any(id, include_deleted) ==
    IF id \in DOMAIN notes THEN Some(notes[id]) ELSE None

(* SELECT ... FROM notes WHERE id = ?1 [AND is_deleted = 0] *)
NoteDao_get_by_id(id, include_deleted) ==
    IF id \in DOMAIN notes /\ (include_deleted \/ ~notes[id].is_deleted)
    THEN Some(notes[id]) ELSE None

(* the row joined with the file content; a missing file reads as "" *)
NoteService_get_by_id(id, include_deleted) ==
    LET got == NoteDao_get_by_id(id, include_deleted)
    IN  IF got.some
        THEN Some([note |-> got.v,
                   content |-> IF got.v.content_path \in DOMAIN files
                               THEN files[got.v.content_path] ELSE <<>>])
        ELSE None

(* a soft delete that sets the flag and no timestamp *)
NoteDao_soft_delete_flag_only(id) ==
    [n \in DOMAIN notes |->
        IF n = id THEN [notes[n] EXCEPT !.is_deleted = TRUE] ELSE notes[n]]

(* UPDATE notes SET is_deleted = 1, deleted_at = now WHERE id = ?1 *)
NoteDao_soft_delete(id) ==
    [n \in DOMAIN notes |->
        IF n = id THEN [notes[n] EXCEPT !.is_deleted = TRUE, !.deleted_at = now]
        ELSE notes[n]]

(* a restore that only clears the timestamp *)
NoteDao_restore_keeps_flag(id) ==
    [n \in DOMAIN notes |->
        IF n = id THEN [notes[n] EXCEPT !.deleted_at = NULL] ELSE notes[n]]

(* UPDATE notes SET is_deleted = 0, deleted_at = NULL WHERE id = ?1 *)
NoteDao_restore(id) ==
    [n \in DOMAIN notes |->
        IF n = id THEN [notes[n] EXCEPT !.is_deleted = FALSE, !.deleted_at = NULL]
        ELSE notes[n]]

Tick ==
    /\ now < MaxClock
    /\ now' = now + 1
    /\ UNCHANGED <<fts, cmd, editor, parse, schema, schema_version, block_references, held, notes, files, blocks, folders, tags, attachments,
                   note_folders, note_tags, links, nextId, last, trip>>

NoteService_create(title, content) ==
    LET uuid == nextId.note
        content_path == <<uuid, slugify(title)>>
        note == [Note_new(title, content_path) EXCEPT
                    !.word_count = count_words(content), !.updated_at = now]
    IN  /\ files' = With(files, content_path, content)
        /\ notes' = With(notes, uuid, note)
        /\ nextId' = [nextId EXCEPT !.note = uuid + 1]
        /\ last' = [op |-> "NoteService::create", res |-> "Ok", id |-> uuid,
                    title |-> title, content |-> content]
        /\ trip' = NoTrip
        /\ UNCHANGED <<now, fts, cmd, editor, parse, schema, schema_version, block_references, held, blocks, folders, tags, attachments, note_folders, note_tags, links>>

(* a title change that leaves updated_at alone *)
Note_update_title_keeps_time(note, title) ==
    [note EXCEPT !.title = title]

(* Note::update_title *)
Note_update_title(note, title) ==
    [note EXCEPT !.title = title, !.updated_at = now]

(* a word-count update that stamps the record with its creation time *)
Note_update_word_count_rewinds(note, word_count) ==
    [note EXCEPT !.word_count = word_count, !.updated_at = note.created_at]

(* Note::update_word_count *)
Note_update_word_count(note, word_count) ==
    [note EXCEPT !.word_count = word_count, !.updated_at = now]

(* title, content: None or Some(v) *)
NoteService_update(id, title, content) ==
    LET got == NoteDao_get_by_id(id, FALSE)
    IN  /\ last' = [op |-> "NoteService::update", id |-> id,
                    title |-> title, content |-> content,
                    res |-> IF got.some THEN "Ok" ELSE "NotFound"]
        /\ trip' = NoTrip
        /\ IF got.some
           THEN LET n1 == IF title.some
                          THEN Note_update_title(got.v, title.v)
                          ELSE got.v
                    n2 == IF content.some
                          THEN Note_update_word_count(n1, count_words(content.v))
                          ELSE n1
                IN  /\ files' = IF content.some
                                THEN With(files, got.v.content_path, content.v)
                                ELSE files
                    /\ notes' = [notes EXCEPT ![id] = n2]
           ELSE UNCHANGED <<notes, files>>
        /\ UNCHANGED <<now, fts, cmd, editor, parse, schema, schema_version, block_references, held, blocks, folders, tags, attachments, note_folders,
                       note_tags, links, nextId>>

(* NoteService::create and NoteService::update when the store refuses the
   INSERT / UPDATE (disk full, database locked): fs::write has already
   returned, `?` on the DAO call returns the error. *)

(* the file write undone when the relational write fails *)
NoteService_create_db_error_atomic(title, content) ==
    LET uuid == nextId.note
    IN  /\ nextId' = [nextId EXCEPT !.note = uuid + 1]
        /\ last' = [op |-> "NoteService::create", res |-> "Database", id |-> uuid,
                    title |-> title, content |-> content]
        /\ trip' = NoTrip
        /\ UNCHANGED <<now, fts, cmd, editor, parse, schema, schema_version, block_references, held,
                       notes, files, blocks, folders, tags, attachments,
                       note_folders, note_tags, links>>

NoteService_create_db_error(title, content) ==
    LET uuid == nextId.note
        content_path == <<uuid, slugify(title)>>
    IN  /\ files' = With(files, content_path, content)
        /\ nextId' = [nextId EXCEPT !.note = uuid + 1]
        /\ last' = [op |-> "NoteService::create", res |-> "Database", id |-> uuid,
                    title |-> title, content |-> content]
        /\ trip' = NoTrip
        /\ UNCHANGED <<now, fts, cmd, editor, parse, schema, schema_version, block_references, held,
                       notes, blocks, folders, tags, attachments, note_folders,
                       note_tags, links>>

NoteService_update_db_error(id, title, content) ==
    LET got == NoteDao_get_by_id(id, FALSE)
    IN  /\ last' = [op |-> "NoteService::update", id |-> id,
                    title |-> title, content |-> content,
                    res |-> IF got.some THEN "Database" ELSE "NotFound"]
        /\ trip' = NoTrip
        /\ files' = IF got.some /\ content.some
                    THEN With(files, got.v.content_path, content.v)
                    ELSE files
        /\ UNCHANGED <<now, fts, cmd, editor, parse, schema, schema_version, block_references, held,
                       notes, blocks, folders, tags, attachments, note_folders,
                       note_tags, links, nextId>>

(* a delete that also flags the blocks of the note *)
NoteService_delete_cascading(id) ==
    /\ notes' = NoteDao_soft_delete(id)
    /\ blocks' = [b \in DOMAIN blocks |->
                    IF blocks[b].note_id = id
                    THEN [blocks[b] EXCEPT !.is_deleted = TRUE, !.deleted_at = now]
                    ELSE blocks[b]]
    /\ last' = [op |-> "NoteService::delete", res |-> "Ok", id |-> id]
    /\ trip' = [stage |-> "deleted", id |-> id,
                pre |-> NoteService_get_by_id(id, TRUE)]
    /\ UNCHANGED <<now, fts, cmd, editor, parse, schema, schema_version, block_references, held, files, folders, tags, attachments,
                   note_folders, note_tags, links, nextId>>

NoteService_delete(id) ==
    /\ notes' = NoteDao_soft_delete(id)
    /\ last' = [op |-> "NoteService::delete", res |-> "Ok", id |-> id]
    /\ trip' = [stage |-> "deleted", id |-> id,
                pre |-> NoteService_get_by_id(id, TRUE)]
    /\ UNCHANGED <<now, fts, cmd, editor, parse, schema, schema_version, block_references, held, files, blocks, folders, tags, attachments,
                   note_folders, note_tags, links, nextId>>

NoteService_restore(id) ==
    /\ notes' = NoteDao_restore(id)
    /\ last' = [op |-> "NoteService::restore", res |-> "Ok", id |-> id]
    /\ trip' = IF trip.stage = "deleted" /\ trip.id = id
               THEN [trip EXCEPT !.stage = "restored"]
               ELSE NoTrip
    /\ UNCHANGED <<now, fts, cmd, editor, parse, schema, schema_version, block_references, held, files, blocks, folders, tags, attachments,
                   note_folders, note_tags, links, nextId>>

----------------------------------------------------------------------------
(* Folders: model, DAO, service *)

Folder_new(name, parent_id, path) ==
    [name |-> name, parent_id |-> parent_id, path |-> path,
     created_at |-> now, updated_at |-> now, position |-> 0]

(* a lookup that finds no folder *)
FolderDao_get_by_id_none(id) == None

FolderDao_get_by_id(id) ==
    IF id \in DOMAIN folders THEN Some(folders[id]) ELSE None

(* SELECT ... FROM folders WHERE parent_id = ?1 *)
FolderDao_get_children(parent_id) ==
    {f \in DOMAIN folders : folders[f].parent_id = parent_id}

(* folders(parent_id) REFERENCES folders(id) ON DELETE CASCADE: the rows a
   delete of the rows S takes with it *)
RECURSIVE CascadeFolders(_)
CascadeFolders(S) ==
    LET more == S \cup {f \in DOMAIN folders : folders[f].parent_id \in S}
    IN  IF more = S THEN S ELSE CascadeFolders(more)

(* DELETE FROM folders WHERE id = ?1, with the cascades of the schema on
   folders.parent_id and note_folders.folder_id *)
FolderDao_delete(id) ==
    LET gone == CascadeFolders({id} \cap DOMAIN folders)
    IN  /\ folders' = Without(folders, gone)
        /\ note_folders' = Without(note_folders,
                                   {k \in DOMAIN note_folders : k[2] \in gone})

FolderService_create(name, parent_id) ==
    LET parent == FolderDao_get_by_id(parent_id)
        uuid == nextId.folder
        path == IF parent_id # NULL /\ parent.some
                THEN Append(parent.v.path, name) ELSE <<name>>
    IN  /\ trip' = NoTrip
        /\ IF parent_id # NULL /\ ~parent.some
           THEN /\ last' = [op |-> "FolderService::create", res |-> "NotFound",
                            parent_id |-> parent_id]
                /\ UNCHANGED <<folders, nextId>>
           ELSE /\ folders' = With(folders, uuid, Folder_new(name, parent_id, path))
                /\ nextId' = [nextId EXCEPT !.folder = uuid + 1]
                /\ last' = [op |-> "FolderService::create", res |-> "Ok",
                            id |-> uuid, parent_id |-> parent_id, name |-> name]
        /\ UNCHANGED <<now, fts, cmd, editor, parse, schema, schema_version, block_references, held, notes, files, blocks, tags, attachments,
                       note_folders, note_tags, links>>

(* an update that also re-derives the path of the children of the row *)
FolderDao_update_rederiving(id, folder) ==
    [f \in DOMAIN folders |->
        IF f = id
        THEN [folders[f] EXCEPT !.name = folder.name,
                                !.parent_id = folder.parent_id,
                                !.path = folder.path,
                                !.updated_at = folder.updated_at,
                                !.position = folder.position]
        ELSE IF folders[f].parent_id = id
        THEN [folders[f] EXCEPT !.path = Append(folder.path, folders[f].name)]
        ELSE folders[f]]

(* UPDATE folders SET name, parent_id, path, updated_at, position WHERE id *)
FolderDao_update(id, folder) ==
    [f \in DOMAIN folders |->
        IF f = id
        THEN [folders[f] EXCEPT !.name = folder.name,
                                !.parent_id = folder.parent_id,
                                !.path = folder.path,
                                !.updated_at = folder.updated_at,
                                !.position = folder.position]
        ELSE folders[f]]

(* FolderService::update(&folder) with the fields of the caller's record;
   the write is refused when parent_id names no folder row (foreign key) *)
FolderService_update(id, name, parent_id, path, updated_at, position) ==
    LET fkOk == parent_id = NULL \/ parent_id \in DOMAIN folders
        hit == id \in DOMAIN folders
        folder == [name |-> name, parent_id |-> parent_id, path |-> path,
                   updated_at |-> updated_at, position |-> position]
    IN  /\ trip' = NoTrip
        /\ last' = [op |-> "FolderService::update", id |-> id, folder |-> folder,
                    res |-> IF hit /\ ~fkOk THEN "Database" ELSE "Ok"]
        /\ folders' = IF hit /\ fkOk THEN FolderDao_update(id, folder) ELSE folders
        /\ UNCHANGED <<now, fts, cmd, editor, parse, schema, schema_version, block_references, held, notes, files, blocks, tags, attachments,
                       note_folders, note_tags, links, nextId>>

(* a delete without the children check *)
FolderService_delete_unguarded(id) ==
    /\ trip' = NoTrip
    /\ last' = [op |-> "FolderService::delete", id |-> id, res |-> "Ok"]
    /\ FolderDao_delete(id)
    /\ UNCHANGED <<now, fts, cmd, editor, parse, schema, schema_version, block_references, held, notes, files, blocks, tags, attachments, note_tags, links, nextId>>

FolderService_delete(id) ==
    LET children == FolderDao_get_children(id)
    IN  /\ trip' = NoTrip
        /\ IF children # {}
           THEN /\ last' = [op |-> "FolderService::delete", id |-> id,
                            res |-> "InvalidInput"]
                /\ UNCHANGED <<folders, note_folders>>
           ELSE /\ last' = [op |-> "FolderService::delete", id |-> id,
                            res |-> "Ok"]
                /\ FolderDao_delete(id)
        /\ UNCHANGED <<now, fts, cmd, editor, parse, schema, schema_version, block_references, held, notes, files, blocks, tags, attachments, note_tags, links, nextId>>

----------------------------------------------------------------------------
(* Relation note_folders *)

(* INSERT INTO note_folders: PRIMARY KEY (note_id, folder_id) and both
   foreign keys must hold; nothing else is checked or changed *)
NoteService_add_to_folder(note_id, folder_id, is_primary, position) ==
    LET ok == /\ <<note_id, folder_id>> \notin DOMAIN note_folders
              /\ note_id \in DOMAIN notes
              /\ folder_id \in DOMAIN folders
    IN  /\ trip' = NoTrip
        /\ last' = [op |-> "NoteService::add_to_folder", note_id |-> note_id,
                    folder_id |-> folder_id, res |-> IF ok THEN "Ok" ELSE "Database"]
        /\ note_folders' =
              IF ok THEN With(note_folders, <<note_id, folder_id>>,
                              [is_primary |-> is_primary, position |-> position])
              ELSE note_folders
        /\ UNCHANGED <<now, fts, cmd, editor, parse, schema, schema_version, block_references, held, notes, files, blocks, folders, tags, attachments,
                       note_tags, links, nextId>>

NoteService_remove_from_folder(note_id, folder_id) ==
    /\ trip' = NoTrip
    /\ last' = [op |-> "NoteService::remove_from_folder", note_id |-> note_id,
                folder_id |-> folder_id, res |-> "Ok"]
    /\ note_folders' = Without(note_folders, {<<note_id, folder_id>>})
    /\ UNCHANGED <<now, fts, cmd, editor, parse, schema, schema_version, block_references, held, notes, files, blocks, folders, tags, attachments,
                   note_tags, links, nextId>>

(* UPDATE note_folders SET is_primary = 0 WHERE note_id = ?1 *)
ClearPrimary(rows, note_id) ==
    [k \in DOMAIN rows |->
        IF k[1] = note_id THEN [rows[k] EXCEPT !.is_primary = FALSE] ELSE rows[k]]

(* UPDATE note_folders SET is_primary = 1 WHERE note_id = ?1 AND folder_id = ?2 *)
MarkPrimary(rows, note_id, folder_id) ==
    [k \in DOMAIN rows |->
        IF k = <<note_id, folder_id>> THEN [rows[k] EXCEPT !.is_primary = TRUE]
        ELSE rows[k]]

(* Two statements on an autocommit connection.  step2_fails: the store
   refuses the second statement (busy, I/O error) after the first one was
   committed; `?` then returns the error. *)
NoteFolderDao_set_primary(note_id, folder_id, step2_fails) ==
    LET cleared == ClearPrimary(note_folders, note_id)
    IN  /\ trip' = NoTrip
        /\ last' = [op |-> "NoteFolderDao::set_primary", note_id |-> note_id,
                    folder_id |-> folder_id,
                    res |-> IF step2_fails THEN "Database" ELSE "Ok"]
        /\ note_folders' = IF step2_fails THEN cleared
                           ELSE MarkPrimary(cleared, note_id, folder_id)
        /\ UNCHANGED <<now, fts, cmd, editor, parse, schema, schema_version, block_references, held, notes, files, blocks, folders, tags, attachments,
                       note_tags, links, nextId>>

----------------------------------------------------------------------------
(* Tags *)

Colors == {"NULL", "#ff0000"}

Tag_new(name) ==
    [name |-> name, color |-> "NULL", icon |-> "NULL", created_at |-> now]

(* a tags table whose name column is not UNIQUE *)
TagNameFree_no_constraint(name, except) == TRUE

(* tags.name TEXT NOT NULL UNIQUE (default BINARY collation): no row other
   than `except` holds exactly this name *)
TagNameFree(name, except) ==
    \A t \in DOMAIN tags \ {except} : tags[t].name # name

(* SELECT ... FROM tags WHERE name = ?1, first row *)
TagDao_get_by_name(name) ==
    LET hits == {t \in DOMAIN tags : tags[t].name = name}
    IN  IF hits = {} THEN None ELSE Some(CHOOSE t \in hits : TRUE)

TagService_create(name) ==
    LET uuid == nextId.tag
    IN  /\ trip' = NoTrip
        /\ IF TagDao_get_by_name(name).some
           THEN /\ last' = [op |-> "TagService::create", name |-> name,
                            res |-> "InvalidInput"]
                /\ UNCHANGED <<tags, nextId>>
           ELSE IF ~TagNameFree(name, NULL)
           THEN /\ last' = [op |-> "TagService::create", name |-> name,
                            res |-> "Database"]
                /\ UNCHANGED <<tags, nextId>>
           ELSE /\ last' = [op |-> "TagService::create", name |-> name,
                            res |-> "Ok", id |-> uuid]
                /\ tags' = With(tags, uuid, Tag_new(name))
                /\ nextId' = [nextId EXCEPT !.tag = uuid + 1]
        /\ UNCHANGED <<now, fts, cmd, editor, parse, schema, schema_version, block_references, held, notes, files, blocks, folders, attachments,
                       note_folders, note_tags, links>>

(* UPDATE tags SET name, color, icon WHERE id *)
TagService_update(id, name, color) ==
    LET hit == id \in DOMAIN tags
        ok == TagNameFree(name, id)
    IN  /\ trip' = NoTrip
        /\ last' = [op |-> "TagService::update", id |-> id, name |-> name,
                    res |-> IF hit /\ ~ok THEN "Database" ELSE "Ok"]
        /\ tags' = IF hit /\ ok
                   THEN [tags EXCEPT ![id] = [@ EXCEPT !.name = name, !.color = color]]
                   ELSE tags
        /\ UNCHANGED <<now, fts, cmd, editor, parse, schema, schema_version, block_references, held, notes, files, blocks, folders, attachments,
                       note_folders, note_tags, links, nextId>>

(* DELETE FROM tags WHERE id; note_tags rows of the tag cascade *)
(* a note_tags table whose tag_id key has no ON DELETE CASCADE and is not
   enforced: the tag row goes, its junction rows stay *)
TagService_delete_no_cascade(id) ==
    /\ trip' = NoTrip
    /\ last' = [op |-> "TagService::delete", id |-> id, res |-> "Ok"]
    /\ tags' = Without(tags, {id})
    /\ UNCHANGED <<now, fts, cmd, editor, parse, schema, schema_version, block_references, held, notes, files, blocks, folders, attachments,
                   note_folders, note_tags, links, nextId>>

TagService_delete(id) ==
    /\ trip' = NoTrip
    /\ last' = [op |-> "TagService::delete", id |-> id, res |-> "Ok"]
    /\ tags' = Without(tags, {id})
    /\ note_tags' = {k \in note_tags : k[2] # id}
    /\ UNCHANGED <<now, fts, cmd, editor, parse, schema, schema_version, block_references, held, notes, files, blocks, folders, attachments,
                   note_folders, links, nextId>>

(* INSERT INTO note_tags (note_id, tag_id, created_at): the primary key
   (note_id, tag_id) and the two foreign keys *)
NoteService_add_tag(note_id, tag_id) ==
    LET ok == /\ <<note_id, tag_id>> \notin note_tags
              /\ note_id \in DOMAIN notes
              /\ tag_id \in DOMAIN tags
    IN  /\ note_tags' = IF ok THEN note_tags \cup {<<note_id, tag_id>>}
                        ELSE note_tags
        /\ last' = [op |-> "NoteService::add_tag", note_id |-> note_id,
                    tag_id |-> tag_id, res |-> IF ok THEN "Ok" ELSE "Database"]
        /\ trip' = NoTrip
        /\ UNCHANGED <<now, fts, cmd, editor, parse, schema, schema_version, block_references, held, notes, files, blocks, folders, tags,
                       attachments, note_folders, links, nextId>>

----------------------------------------------------------------------------
(* Attachments (DAO layer; the caller supplies the id).  A row keeps its
   hash and file_name; the other columns are written like file_name. *)

(* an attachments table whose hash column is not UNIQUE *)
HashFree_no_constraint(hash) == TRUE

(* attachments.hash TEXT NOT NULL UNIQUE *)
HashFree(hash) == \A a \in DOMAIN attachments : attachments[a].hash # hash

AttachmentDao_create(id, file_name, hash) ==
    LET ok == id \notin DOMAIN attachments /\ HashFree(hash)
    IN  /\ trip' = NoTrip
        /\ last' = [op |-> "AttachmentDao::create", id |-> id, hash |-> hash,
                    res |-> IF ok THEN "Ok" ELSE "Database"]
        /\ attachments' =
              IF ok THEN With(attachments, id,
                              [file_name |-> file_name, hash |-> hash,
                               created_at |-> now, updated_at |-> now])
              ELSE attachments
        /\ UNCHANGED <<now, fts, cmd, editor, parse, schema, schema_version, block_references, held, notes, files, blocks, folders, tags,
                       note_folders, note_tags, links, nextId>>

(* SELECT ... FROM attachments WHERE hash = ?1, first row *)
AttachmentDao_get_by_hash(hash) ==
    LET hits == {a \in DOMAIN attachments : attachments[a].hash = hash}
    IN  IF hits = {} THEN None ELSE Some(CHOOSE a \in hits : TRUE)

(* UPDATE attachments SET file_name, ..., updated_at WHERE id: the hash of
   the record passed in is not written *)
AttachmentDao_update(id, file_name, hash) ==
    /\ trip' = NoTrip
    /\ last' = [op |-> "AttachmentDao::update", id |-> id, hash |-> hash,
                res |-> "Ok"]
    /\ attachments' =
          [a \in DOMAIN attachments |->
              IF a = id THEN [attachments[a] EXCEPT !.file_name = file_name,
                                                    !.updated_at = now]
              ELSE attachments[a]]
    /\ UNCHANGED <<now, fts, cmd, editor, parse, schema, schema_version, block_references, held, notes, files, blocks, folders, tags,
                   note_folders, note_tags, links, nextId>>

AttachmentDao_delete(id) ==
    /\ trip' = NoTrip
    /\ last' = [op |-> "AttachmentDao::delete", id |-> id, res |-> "Ok"]
    /\ attachments' = Without(attachments, {id})
    /\ UNCHANGED <<now, fts, cmd, editor, parse, schema, schema_version, block_references, held, notes, files, blocks, folders, tags,
                   note_folders, note_tags, links, nextId>>

----------------------------------------------------------------------------
(* Blocks and links *)

Block_new(note_id, block_type, content, position) ==
    [note_id |-> note_id, block_type |-> block_type, content |-> content,
     position |-> position, created_at |-> now, updated_at |-> now,
     is_deleted |-> FALSE, deleted_at |-> NULL]

(* a lookup that does not look at is_deleted *)
BlockDao_get_by_id_any(id, include_deleted) ==
    IF id \in DOMAIN blocks THEN Some(blocks[id]) ELSE None

BlockDao_get_by_id(id, include_deleted) ==
    IF id \in DOMAIN blocks /\ (include_deleted \/ ~blocks[id].is_deleted)
    THEN Some(blocks[id]) ELSE None

BlockService_create(note_id, block_type, content, position) ==
    LET uuid == nextId.block
    IN  /\ trip' = NoTrip
        /\ IF ~NoteDao_get_by_id(note_id, FALSE).some
           THEN /\ last' = [op |-> "BlockService::create", note_id |-> note_id,
                            res |-> "NotFound"]
                /\ UNCHANGED <<blocks, nextId>>
           ELSE /\ last' = [op |-> "BlockService::create", note_id |-> note_id,
                            res |-> "Ok", id |-> uuid]
                /\ blocks' = With(blocks, uuid,
                                  Block_new(note_id, block_type, content, position))
                /\ nextId' = [nextId EXCEPT !.block = uuid + 1]
        /\ UNCHANGED <<now, fts, cmd, editor, parse, schema, schema_version, block_references, held, notes, files, folders, tags, attachments,
                       note_folders, note_tags, links>>

(* UPDATE blocks SET is_deleted = 1, deleted_at = now WHERE id *)
BlockService_delete(id) ==
    /\ trip' = NoTrip
    /\ last' = [op |-> "BlockService::delete", id |-> id, res |-> "Ok"]
    /\ blocks' = [b \in DOMAIN blocks |->
                    IF b = id THEN [blocks[b] EXCEPT !.is_deleted = TRUE,
                                                     !.deleted_at = now]
                    ELSE blocks[b]]
    /\ UNCHANGED <<now, fts, cmd, editor, parse, schema, schema_version, block_references, held, notes, files, folders, tags, attachments,
                   note_folders, note_tags, links, nextId>>

(* UPDATE blocks SET is_deleted = 0, deleted_at = NULL WHERE id *)
BlockService_restore(id) ==
    /\ trip' = NoTrip
    /\ last' = [op |-> "BlockService::restore", id |-> id, res |-> "Ok"]
    /\ blocks' = [b \in DOMAIN blocks |->
                    IF b = id THEN [blocks[b] EXCEPT !.is_deleted = FALSE,
                                                     !.deleted_at = NULL]
                    ELSE blocks[b]]
    /\ UNCHANGED <<now, fts, cmd, editor, parse, schema, schema_version, block_references, held, notes, files, folders, tags, attachments,
                   note_folders, note_tags, links, nextId>>

(* BlockService::get_by_id by a caller that keeps the record it was given *)
BlockService_get_by_id(id, include_deleted) ==
    LET got == BlockDao_get_by_id(id, include_deleted)
    IN  /\ held' = IF got.some THEN Some([id |-> id, block |-> got.v]) ELSE None
        /\ last' = [op |-> "BlockService::get_by_id", id |-> id,
                    res |-> IF got.some THEN "Ok" ELSE "None"]
        /\ trip' = NoTrip
        /\ UNCHANGED <<now, fts, cmd, editor, parse, schema, schema_version, block_references, notes, files, blocks, folders, tags, attachments,
                       note_folders, note_tags, links, nextId>>

(* an update that always writes the row as active *)
BlockDao_update_clears_deletion(id, block) ==
    [b \in DOMAIN blocks |->
        IF b = id
        THEN [blocks[b] EXCEPT !.block_type = block.block_type,
                               !.content = block.content,
                               !.position = block.position,
                               !.updated_at = block.updated_at,
                               !.is_deleted = FALSE,
                               !.deleted_at = NULL]
        ELSE blocks[b]]

(* UPDATE blocks SET block_type, content, position, updated_at, is_deleted,
   deleted_at WHERE id = ?1 *)
BlockDao_update(id, block) ==
    [b \in DOMAIN blocks |->
        IF b = id
        THEN [blocks[b] EXCEPT !.block_type = block.block_type,
                               !.content = block.content,
                               !.position = block.position,
                               !.updated_at = block.updated_at,
                               !.is_deleted = block.is_deleted,
                               !.deleted_at = block.deleted_at]
        ELSE blocks[b]]

(* Block::update_content *)
Block_update_content(block, content) ==
    [block EXCEPT !.content = content, !.updated_at = now]

(* Block::soft_delete / Block::restore on a record in memory *)
Block_soft_delete(block) ==
    [block EXCEPT !.is_deleted = TRUE, !.deleted_at = now]

Block_restore(block) ==
    [block EXCEPT !.is_deleted = FALSE, !.deleted_at = NULL]

(* BlockService::update(&block) with the record the caller holds, as read or
   after Block::update_content (content: None or Some(text)) and
   Block::soft_delete or Block::restore (flag) on it *)
BlockService_update(content, flag) ==
    /\ held.some
    /\ LET edited == IF content.some
                     THEN Block_update_content(held.v.block, content.v)
                     ELSE held.v.block
           block == CASE flag = "soft_delete" -> Block_soft_delete(edited)
                      [] flag = "restore" -> Block_restore(edited)
                      [] OTHER -> edited
       IN  /\ blocks' = BlockDao_update(held.v.id, block)
           /\ last' = [op |-> "BlockService::update", id |-> held.v.id,
                       block |-> block, res |-> "Ok", flag |-> flag,
                       before |-> BlockDao_get_by_id(held.v.id, TRUE)]
           /\ held' = Some([id |-> held.v.id, block |-> block])
    /\ trip' = NoTrip
    /\ UNCHANGED <<now, fts, cmd, editor, parse, schema, schema_version, block_references, notes, files, folders, tags, attachments,
                   note_folders, note_tags, links, nextId>>

BlockService_update_content(id, content) ==
    LET got == BlockDao_get_by_id(id, FALSE)
    IN  /\ last' = [op |-> "BlockService::update_content", id |-> id,
                    res |-> IF got.some THEN "Ok" ELSE "NotFound"]
        /\ blocks' = IF got.some
                     THEN BlockDao_update(id, Block_update_content(got.v, content))
                     ELSE blocks
        /\ trip' = NoTrip
        /\ UNCHANGED <<now, fts, cmd, editor, parse, schema, schema_version, block_references, held, notes, files, folders, tags, attachments,
                       note_folders, note_tags, links, nextId>>

BlockService_update_position(id, position) ==
    LET got == BlockDao_get_by_id(id, FALSE)
    IN  /\ last' = [op |-> "BlockService::update_position", id |-> id,
                    res |-> IF got.some THEN "Ok" ELSE "NotFound"]
        /\ blocks' = IF got.some
                     THEN BlockDao_update(id, [got.v EXCEPT !.position = position,
                                                            !.updated_at = now])
                     ELSE blocks
        /\ trip' = NoTrip
        /\ UNCHANGED <<now, fts, cmd, editor, parse, schema, schema_version, block_references, held, notes, files, folders, tags, attachments,
                       note_folders, note_tags, links, nextId>>

(* Block references: each row gets a fresh "ref-<uuid>" key, so the table
   is the sequence of its rows; both columns are foreign keys to blocks. *)
BlockService_create_reference(source_block_id, target_block_id) ==
    LET res == IF ~BlockDao_get_by_id(source_block_id, FALSE).some THEN "NotFound"
               ELSE IF ~BlockDao_get_by_id(target_block_id, FALSE).some THEN "NotFound"
               ELSE "Ok"
    IN  /\ trip' = NoTrip
        /\ last' = [op |-> "BlockService::create_reference",
                    source_block_id |-> source_block_id,
                    target_block_id |-> target_block_id, res |-> res]
        /\ block_references' =
              IF res = "Ok"
              THEN Append(block_references,
                          [source_block_id |-> source_block_id,
                           target_block_id |-> target_block_id])
              ELSE block_references
        /\ UNCHANGED <<now, fts, cmd, editor, parse, schema, schema_version, held, notes, files,
                       blocks, folders, tags, attachments, note_folders,
                       note_tags, links, nextId>>

(* DELETE FROM block_references WHERE source_block_id = ?1 AND
   target_block_id = ?2 *)
BlockService_delete_reference(source_block_id, target_block_id) ==
    /\ trip' = NoTrip
    /\ last' = [op |-> "BlockService::delete_reference",
                source_block_id |-> source_block_id,
                target_block_id |-> target_block_id, res |-> "Ok"]
    /\ block_references' =
          SelectSeq(block_references,
                    LAMBDA r : ~(/\ r.source_block_id = source_block_id
                                 /\ r.target_block_id = target_block_id))
    /\ UNCHANGED <<now, fts, cmd, editor, parse, schema, schema_version, held, notes, files,
                   blocks, folders, tags, attachments, note_folders,
                   note_tags, links, nextId>>

Link_new_note_link(source_note_id, target_note_id, link_text) ==
    [source_note_id |-> source_note_id, target_note_id |-> target_note_id,
     source_block_id |-> NULL, target_block_id |-> NULL,
     link_type |-> "note_link", link_text |-> link_text, created_at |-> now]

Link_new_block_reference(source_block_id, target_block_id, source_note_id) ==
    [source_note_id |-> source_note_id, target_note_id |-> NULL,
     source_block_id |-> source_block_id, target_block_id |-> target_block_id,
     link_type |-> "block_reference", link_text |-> "NULL", created_at |-> now]

(* the constraints of table links on an inserted row: the four foreign keys
   (a NULL column references nothing) and the CHECK on link_type *)
LinkConstraintsHold(link) ==
    /\ link.source_note_id \in DOMAIN notes
    /\ link.target_note_id = NULL \/ link.target_note_id \in DOMAIN notes
    /\ link.source_block_id = NULL \/ link.source_block_id \in DOMAIN blocks
    /\ link.target_block_id = NULL \/ link.target_block_id \in DOMAIN blocks
    /\ \/ link.link_type = "note_link" /\ link.target_note_id # NULL
       \/ link.link_type = "block_reference" /\ link.target_block_id # NULL
       \/ link.link_type = "database_relation" /\ link.target_note_id # NULL

(* the tail of both creation operations: fresh id, LinkDao::create *)
InsertLink(op, link) ==
    LET uuid == nextId.link
    IN  IF LinkConstraintsHold(link)
        THEN /\ last' = [op |-> op, res |-> "Ok", id |-> uuid, link |-> link]
             /\ links' = With(links, uuid, link)
             /\ nextId' = [nextId EXCEPT !.link = uuid + 1]
        ELSE /\ last' = [op |-> op, res |-> "Database", link |-> link]
             /\ UNCHANGED <<links, nextId>>

LinkService_create_note_link(source_note_id, target_note_id, link_text) ==
    LET op == "LinkService::create_note_link"
        link == Link_new_note_link(source_note_id, target_note_id, link_text)
    IN  /\ trip' = NoTrip
        /\ IF ~NoteDao_get_by_id(source_note_id, FALSE).some
           THEN /\ last' = [op |-> op, res |-> "NotFound", missing |-> "Source note",
                            link |-> link]
                /\ UNCHANGED <<links, nextId>>
           ELSE IF ~NoteDao_get_by_id(target_note_id, FALSE).some
           THEN /\ last' = [op |-> op, res |-> "NotFound", missing |-> "Target note",
                            link |-> link]
                /\ UNCHANGED <<links, nextId>>
           ELSE InsertLink(op, link)
        /\ UNCHANGED <<now, fts, cmd, editor, parse, schema, schema_version, block_references, held, notes, files, blocks, folders, tags, attachments,
                       note_folders, note_tags>>

LinkService_create_block_reference(source_block_id, target_block_id, source_note_id) ==
    LET op == "LinkService::create_block_reference"
        link == Link_new_block_reference(source_block_id, target_block_id,
                                         source_note_id)
    IN  /\ trip' = NoTrip
        /\ IF ~BlockDao_get_by_id(source_block_id, FALSE).some
           THEN /\ last' = [op |-> op, res |-> "NotFound", missing |-> "Source block",
                            link |-> link]
                /\ UNCHANGED <<links, nextId>>
           ELSE IF ~BlockDao_get_by_id(target_block_id, FALSE).some
           THEN /\ last' = [op |-> op, res |-> "NotFound", missing |-> "Target block",
                            link |-> link]
                /\ UNCHANGED <<links, nextId>>
           ELSE InsertLink(op, link)
        /\ UNCHANGED <<now, fts, cmd, editor, parse, schema, schema_version, block_references, held, notes, files, blocks, folders, tags, attachments,
                       note_folders, note_tags>>

LinkService_delete(id) ==
    /\ trip' = NoTrip
    /\ last' = [op |-> "LinkService::delete", id |-> id, res |-> "Ok"]
    /\ links' = Without(links, {id})
    /\ UNCHANGED <<now, fts, cmd, editor, parse, schema, schema_version, block_references, held, notes, files, blocks, folders, tags, attachments,
                   note_folders, note_tags, nextId>>

(* a listing that selects on the target column *)
LinkDao_get_outgoing_links_by_target(note_id) ==
    {[id |-> i, link |-> links[i]] :
        i \in {j \in DOMAIN links : links[j].target_note_id = note_id}}

(* SELECT ... FROM links WHERE source_note_id = ?1 *)
LinkDao_get_outgoing_links(note_id) ==
    {[id |-> i, link |-> links[i]] :
        i \in {j \in DOMAIN links : links[j].source_note_id = note_id}}

(* SELECT ... FROM links WHERE target_note_id = ?1 *)
LinkDao_get_incoming_links(note_id) ==
    {[id |-> i, link |-> links[i]] :
        i \in {j \in DOMAIN links : links[j].target_note_id = note_id}}

(* the terms the fts5 default tokenizer makes of a text: the maximal runs of
   alphanumeric characters, folded to lower case *)
RECURSIVE TermsFrom(_, _, _)
TermsFrom(s, i, cur) ==
    LET done == IF cur = <<>> THEN {} ELSE {cur}
    IN  IF i > Len(s) THEN done
        ELSE IF is_alphanumeric(s[i])
        THEN TermsFrom(s, i + 1, Append(cur, to_lowercase(s[i])))
        ELSE done \cup TermsFrom(s, i + 1, <<>>)

Terms(s) == TermsFrom(s, 1, <<>>)

(* SELECT n.* FROM notes_fts fts INNER JOIN notes n ON n.rowid = fts.rowid
   WHERE notes_fts MATCH ?1 [AND n.is_deleted = 0]: the ids of the rows
   returned (the order is left out here) *)
SearchService_search_notes(query, include_deleted) ==
    {id \in DOMAIN fts.notes_fts \cap DOMAIN notes :
        /\ Terms(query) # {}
        /\ Terms(query) \subseteq fts.notes_fts[id]
        /\ include_deleted \/ ~notes[id].is_deleted}

----------------------------------------------------------------------------
(* Listings.  A query with ORDER BY returns its rows sorted by the key;
   rows with equal keys come in an order SQL leaves open, so a listing is
   the set of sequences the store may return. *)

Orderings(S) ==
    {s \in [1..Cardinality(S) -> S] : \A i, j \in 1..Cardinality(S) : i # j => s[i] # s[j]}

Range(s) == {s[i] : i \in DOMAIN s}

(* text LIKE pattern: % matches any run of characters, _ any one
   character, any other character itself, ASCII letters regardless of case *)
RECURSIVE Like(_, _)
Like(pattern, text) ==
    IF pattern = <<>> THEN text = <<>>
    ELSE IF Head(pattern) = "%"
         THEN IF Like(Tail(pattern), text) THEN TRUE
              ELSE IF text = <<>> THEN FALSE ELSE Like(pattern, Tail(text))
         ELSE IF text = <<>> THEN FALSE
              ELSE IF Head(pattern) = "_"
                      \/ to_lowercase(Head(pattern)) = to_lowercase(Head(text))
                   THEN Like(Tail(pattern), Tail(text))
                   ELSE FALSE

(* ... FROM notes [WHERE is_deleted = 0] ORDER BY updated_at DESC *)
NoteDao_list(include_deleted) ==
    LET rows == {id \in DOMAIN notes : include_deleted \/ ~notes[id].is_deleted}
    IN  {s \in Orderings(rows) :
            \A i, j \in DOMAIN s :
                i < j => notes[s[i]].updated_at >= notes[s[j]].updated_at}

(* ... WHERE title LIKE '%' || query || '%' [AND is_deleted = 0]
   ORDER BY updated_at DESC *)
NoteDao_search_by_title(query, include_deleted) ==
    LET search_pattern == <<"%">> \o query \o <<"%">>
        rows == {id \in DOMAIN notes :
                    /\ Like(search_pattern, notes[id].title)
                    /\ include_deleted \/ ~notes[id].is_deleted}
    IN  {s \in Orderings(rows) :
            \A i, j \in DOMAIN s :
                i < j => notes[s[i]].updated_at >= notes[s[j]].updated_at}

NoteService_list(include_deleted) ==
    /\ \E out \in NoteDao_list(include_deleted) :
          last' = [op |-> "NoteService::list", include_deleted |-> include_deleted,
                   res |-> "Ok", out |-> out]
    /\ trip' = NoTrip
    /\ UNCHANGED <<now, fts, cmd, editor, parse, schema, schema_version, block_references, held,
                   notes, files, blocks, folders, tags, attachments,
                   note_folders, note_tags, links, nextId>>

NoteService_search_by_title(query, include_deleted) ==
    /\ \E out \in NoteDao_search_by_title(query, include_deleted) :
          last' = [op |-> "NoteService::search_by_title", query |-> query,
                   include_deleted |-> include_deleted, res |-> "Ok", out |-> out]
    /\ trip' = NoTrip
    /\ UNCHANGED <<now, fts, cmd, editor, parse, schema, schema_version, block_references, held,
                   notes, files, blocks, folders, tags, attachments,
                   note_folders, note_tags, links, nextId>>

(* ... FROM blocks WHERE note_id = ?1 [AND is_deleted = 0] ORDER BY position *)
BlockDao_get_by_note(note_id, include_deleted) ==
    LET rows == {id \in DOMAIN blocks :
                    /\ blocks[id].note_id = note_id
                    /\ include_deleted \/ ~blocks[id].is_deleted}
    IN  {s \in Orderings(rows) :
            \A i, j \in DOMAIN s :
                i < j => blocks[s[i]].position <= blocks[s[j]].position}

BlockService_get_by_note(note_id, include_deleted) ==
    /\ \E out \in BlockDao_get_by_note(note_id, include_deleted) :
          last' = [op |-> "BlockService::get_by_note", note_id |-> note_id,
                   include_deleted |-> include_deleted, res |-> "Ok", out |-> out]
    /\ trip' = NoTrip
    /\ UNCHANGED <<now, fts, cmd, editor, parse, schema, schema_version, block_references, held,
                   notes, files, blocks, folders, tags, attachments,
                   note_folders, note_tags, links, nextId>>

(* DELETE FROM note_tags WHERE note_id = ?1 AND tag_id = ?2 *)
NoteService_remove_tag(note_id, tag_id) ==
    /\ note_tags' = note_tags \ {<<note_id, tag_id>>}
    /\ last' = [op |-> "NoteService::remove_tag", note_id |-> note_id,
                tag_id |-> tag_id, res |-> "Ok"]
    /\ trip' = NoTrip
    /\ UNCHANGED <<now, fts, cmd, editor, parse, schema, schema_version, block_references, held,
                   notes, files, blocks, folders, tags, attachments,
                   note_folders, links, nextId>>

(* a listing ordered by position alone *)
NoteFolderDao_get_folders_for_note_by_position(note_id) ==
    LET rows == {[folder_id |-> k[2], is_primary |-> note_folders[k].is_primary,
                  position |-> note_folders[k].position] :
                    k \in {x \in DOMAIN note_folders : x[1] = note_id}}
    IN  {s \in Orderings(rows) :
            \A i, j \in DOMAIN s : i < j => s[i].position <= s[j].position}

(* SELECT folder_id, is_primary, position FROM note_folders
   WHERE note_id = ?1 ORDER BY is_primary DESC, position *)
NoteFolderDao_get_folders_for_note(note_id) ==
    LET rows == {[folder_id |-> k[2], is_primary |-> note_folders[k].is_primary,
                  position |-> note_folders[k].position] :
                    k \in {x \in DOMAIN note_folders : x[1] = note_id}}
    IN  {s \in Orderings(rows) :
            \A i, j \in DOMAIN s :
                i < j => \/ s[i].is_primary /\ ~s[j].is_primary
                         \/ /\ s[i].is_primary = s[j].is_primary
                            /\ s[i].position <= s[j].position}

(* SELECT note_id FROM note_folders WHERE folder_id = ?1 ORDER BY position *)
NoteFolderDao_get_notes_in_folder(folder_id) ==
    LET rows == {k[1] : k \in {x \in DOMAIN note_folders : x[2] = folder_id}}
    IN  {s \in Orderings(rows) :
            \A i, j \in DOMAIN s :
                i < j => note_folders[<<s[i], folder_id>>].position
                            <= note_folders[<<s[j], folder_id>>].position}

(* SELECT tag_id FROM note_tags WHERE note_id = ?1 *)
NoteTagDao_get_tags_for_note(note_id) ==
    Orderings({k[2] : k \in {x \in note_tags : x[1] = note_id}})

(* SELECT note_id FROM note_tags WHERE tag_id = ?1 *)
NoteTagDao_get_notes_with_tag(tag_id) ==
    Orderings({k[1] : k \in {x \in note_tags : x[2] = tag_id}})

----------------------------------------------------------------------------
(* Schema initialisation: the statements of init_database in program
   order.  create_indexes stands for its 35 CREATE INDEX IF NOT EXISTS
   statements; the object "indexes" exists once all of them have run. *)

SCHEMA_VERSION == 1

Create(object) == [kind |-> "create", object |-> object, if_not_exists |-> TRUE]

InsertVersion(or_replace) == [kind |-> "insert_version", or_replace |-> or_replace]

(* the marker written with a plain INSERT *)
init_statements_plain_insert ==
    << Create("notes"), Create("blocks"), Create("folders"),
       Create("note_folders"), Create("tags"), Create("note_tags"),
       Create("links"), Create("block_references"), Create("databases"),
       Create("database_notes"), Create("attachments"),
       Create("note_attachments"), Create("block_attachments"),
       Create("notes_fts"), Create("blocks_fts"), Create("indexes"),
       Create("schema_version"), InsertVersion(FALSE) >>

init_statements ==
    << Create("notes"), Create("blocks"), Create("folders"),
       Create("note_folders"), Create("tags"), Create("note_tags"),
       Create("links"), Create("block_references"), Create("databases"),
       Create("database_notes"), Create("attachments"),
       Create("note_attachments"), Create("block_attachments"),
       Create("notes_fts"), Create("blocks_fts"), Create("indexes"),
       Create("schema_version"), InsertVersion(TRUE) >>

SchemaObjects ==
    {init_statements[i].object :
        i \in {j \in DOMAIN init_statements : init_statements[j].kind = "create"}}

(* Does the statement fail on this store?  CREATE without IF NOT EXISTS
   fails on an existing object; INSERT fails on an existing key or a
   missing table, INSERT OR REPLACE only on a missing table. *)
StatementFails(st, sch, ver) ==
    IF st.kind = "create"
    THEN ~st.if_not_exists /\ st.object \in sch
    ELSE \/ "schema_version" \notin sch
         \/ ~st.or_replace /\ SCHEMA_VERSION \in ver

(* Each statement is committed on its own; `?` returns at the first one
   that fails.  fault: the statement the store refuses (disk full, busy),
   0 for none. *)
RECURSIVE RunStatements(_, _, _, _)
RunStatements(i, sch, ver, fault) ==
    IF i > Len(init_statements)
    THEN [schema |-> sch, schema_version |-> ver, res |-> "Ok"]
    ELSE LET st == init_statements[i]
         IN  IF i = fault \/ StatementFails(st, sch, ver)
             THEN [schema |-> sch, schema_version |-> ver, res |-> "Database"]
             ELSE IF st.kind = "create"
                  THEN RunStatements(i + 1, sch \cup {st.object}, ver, fault)
                  ELSE RunStatements(i + 1, sch,
                                     (ver \ {SCHEMA_VERSION}) \cup {SCHEMA_VERSION},
                                     fault)

init_database(fault) ==
    LET out == RunStatements(1, schema, schema_version, fault)
    IN  /\ schema' = out.schema
        /\ schema_version' = out.schema_version
        /\ last' = [op |-> "init_database", fault |-> fault, res |-> out.res]
        /\ trip' = NoTrip
        /\ UNCHANGED <<now, fts, cmd, editor, parse, held, block_references, notes, files, blocks,
                       folders, tags, attachments, note_folders, note_tags,
                       links, nextId>>

(* DatabaseManager::new returned Ok at least once on this file *)
StoreOpened == SchemaObjects \subseteq schema /\ schema_version # {}

----------------------------------------------------------------------------
(* The desktop command layer: update_note is an async command; every
   invocation builds its own ServiceContext (its own connection) and runs
   NoteService::update on it, with nothing serialising two invocations.
   The store is touched three times: the SELECT, fs::write, the UPDATE.
   Two commands: "title" passes Some(title), None; "content" passes None,
   Some(content). *)

NoCommands == [c \in {"title", "content"} |-> [pc |-> "idle"]]

NewTitle == <<"a", " ", "-", "b">>
NewContent == <<"a", " ", "a">>

(* service_context, then NoteDao::get_by_id(.., false) and the in-memory
   note.update_title *)
update_note_read(c, id) ==
    LET got == NoteDao_get_by_id(id, FALSE)
        note == IF c = "title" /\ got.some
                THEN Note_update_title(got.v, NewTitle) ELSE got.v
    IN  /\ cmd[c].pc = "idle"
        /\ cmd' = [cmd EXCEPT ![c] =
                      IF got.some
                      THEN [pc |-> IF c = "title" THEN "ready" ELSE "read",
                            id |-> id, note |-> note]
                      ELSE [pc |-> "done", id |-> id, res |-> "NotFound"]]
        /\ last' = [op |-> "update_note", cmd |-> c, step |-> "read", id |-> id,
                    res |-> IF got.some THEN "Ok" ELSE "NotFound"]
        /\ trip' = NoTrip
        /\ UNCHANGED <<now, fts, editor, parse, schema, schema_version, block_references,
                       held, notes, files, blocks, folders, tags, attachments,
                       note_folders, note_tags, links, nextId>>

(* fs::write(content_path, new_content), then note.update_word_count *)
update_note_write_file(c) ==
    /\ cmd[c].pc = "read"
    /\ files' = With(files, cmd[c].note.content_path, NewContent)
    /\ cmd' = [cmd EXCEPT ![c] =
                  [pc |-> "ready", id |-> cmd[c].id,
                   note |-> Note_update_word_count(cmd[c].note,
                                                   count_words(NewContent))]]
    /\ last' = [op |-> "update_note", cmd |-> c, step |-> "write_file",
                id |-> cmd[c].id, res |-> "Ok"]
    /\ trip' = NoTrip
    /\ UNCHANGED <<now, fts, editor, parse, schema, schema_version, block_references,
                   held, notes, blocks, folders, tags, attachments,
                   note_folders, note_tags, links, nextId>>

(* NoteDao::update(&note): UPDATE notes SET title, content_path,
   updated_at, word_count, is_deleted, deleted_at WHERE id = ?1, from the
   record read earlier *)
update_note_write_row(c) ==
    /\ cmd[c].pc = "ready"
    /\ notes' = [notes EXCEPT ![cmd[c].id] = cmd[c].note]
    /\ cmd' = [cmd EXCEPT ![c] = [pc |-> "done", id |-> cmd[c].id, res |-> "Ok"]]
    /\ last' = [op |-> "update_note", cmd |-> c, step |-> "write_row",
                id |-> cmd[c].id, res |-> "Ok"]
    /\ trip' = NoTrip
    /\ UNCHANGED <<now, fts, editor, parse, schema, schema_version, block_references,
                   held, files, blocks, folders, tags, attachments,
                   note_folders, note_tags, links, nextId>>

----------------------------------------------------------------------------
(* EditorCore.  The buffer is the sequence of its characters; the byte
   offsets of the code (char_offset_to_byte, is_char_boundary) are the
   character offsets here.  Every call records in `last` its result and
   the buffer it found. *)

Min(a, b) == IF a < b THEN a ELSE b

EditorCore_new(initial_content) ==
    [buffer |-> initial_content, cursor |-> Len(initial_content),
     selection |-> None, undo_stack |-> <<initial_content>>,
     redo_stack |-> <<>>]

can_undo == Len(editor.undo_stack) > 1

can_redo == editor.redo_stack # <<>>

EditorFrame ==
    /\ trip' = NoTrip
    /\ UNCHANGED <<now, fts, cmd, parse, schema, schema_version, block_references,
                   held, notes, files, blocks, folders, tags, attachments,
                   note_folders, note_tags, links, nextId>>

(* an insertion that keeps the redo stack *)
EditorCore_insert_at_cursor_keeps_redo(text) ==
    LET b == editor.buffer
        buffer == SubSeq(b, 1, editor.cursor) \o text
                  \o SubSeq(b, editor.cursor + 1, Len(b))
    IN  /\ editor' = [editor EXCEPT
                         !.buffer = buffer,
                         !.cursor = editor.cursor + Len(text),
                         !.undo_stack = Append(editor.undo_stack, buffer)]
        /\ last' = [op |-> "insert_at_cursor", arg |-> text, res |-> "Ok",
                    before |-> b]
        /\ EditorFrame

(* a cursor move that does not clamp *)
EditorCore_set_cursor_unclamped(index) ==
    /\ editor' = [editor EXCEPT !.cursor = index]
    /\ last' = [op |-> "set_cursor", arg |-> index, res |-> "Ok",
                before |-> editor.buffer]
    /\ EditorFrame

EditorCore_set_cursor(index) ==
    /\ editor' = [editor EXCEPT !.cursor = Min(index, Len(editor.buffer))]
    /\ last' = [op |-> "set_cursor", arg |-> index, res |-> "Ok",
                before |-> editor.buffer]
    /\ EditorFrame

EditorCore_set_selection(anchor, head) ==
    /\ editor' = [editor EXCEPT !.selection =
                     Some(<<Min(anchor, Len(editor.buffer)),
                            Min(head, Len(editor.buffer))>>)]
    /\ last' = [op |-> "set_selection", arg |-> <<anchor, head>>, res |-> "Ok",
                before |-> editor.buffer]
    /\ EditorFrame

EditorCore_insert_at_cursor(text) ==
    LET b == editor.buffer
        buffer == SubSeq(b, 1, editor.cursor) \o text
                  \o SubSeq(b, editor.cursor + 1, Len(b))
    IN  /\ editor' = [editor EXCEPT
                         !.buffer = buffer,
                         !.cursor = editor.cursor + Len(text),
                         !.undo_stack = Append(editor.undo_stack, buffer),
                         !.redo_stack = <<>>]
        /\ last' = [op |-> "insert_at_cursor", arg |-> text, res |-> "Ok",
                    before |-> b]
        /\ EditorFrame

(* start: the n-th element, counted from 0, of the character starts of
   the whole buffer taken from its end; 0 when there are not that many *)
EditorCore_delete_backward(n) ==
    LET b == editor.buffer
        start == IF n < Len(b) THEN Len(b) - 1 - n ELSE 0
        removed == IF start >= editor.cursor THEN 0 ELSE editor.cursor - start
        buffer == SubSeq(b, 1, start) \o SubSeq(b, editor.cursor + 1, Len(b))
    IN  /\ editor' = IF removed > 0
                     THEN [editor EXCEPT
                              !.buffer = buffer,
                              !.cursor = editor.cursor - removed,
                              !.undo_stack = Append(editor.undo_stack, buffer),
                              !.redo_stack = <<>>]
                     ELSE editor
        /\ last' = [op |-> "delete_backward", arg |-> n, res |-> removed,
                    before |-> b]
        /\ EditorFrame

(* end: the n-th element, counted from 0, of the character boundaries
   from the cursor to the end of the buffer; the end when there are not
   that many *)
EditorCore_delete_forward(n) ==
    LET b == editor.buffer
        end == IF editor.cursor + n <= Len(b) THEN editor.cursor + n ELSE Len(b)
        removed == end - editor.cursor
        buffer == SubSeq(b, 1, editor.cursor) \o SubSeq(b, end + 1, Len(b))
    IN  /\ editor' = IF removed > 0
                     THEN [editor EXCEPT
                              !.buffer = buffer,
                              !.undo_stack = Append(editor.undo_stack, buffer),
                              !.redo_stack = <<>>]
                     ELSE editor
        /\ last' = [op |-> "delete_forward", arg |-> n, res |-> removed,
                    before |-> b]
        /\ EditorFrame

EditorCore_undo ==
    LET popped == SubSeq(editor.undo_stack, 1, Len(editor.undo_stack) - 1)
        buffer == popped[Len(popped)]
    IN  /\ editor' = IF Len(editor.undo_stack) <= 1 THEN editor
                     ELSE [editor EXCEPT
                              !.redo_stack = Append(editor.redo_stack,
                                     editor.undo_stack[Len(editor.undo_stack)]),
                              !.undo_stack = popped,
                              !.buffer = buffer,
                              !.cursor = Min(editor.cursor, Len(buffer))]
        /\ last' = [op |-> "undo", arg |-> 0, res |-> Len(editor.undo_stack) > 1,
                    before |-> editor.buffer]
        /\ EditorFrame

EditorCore_redo ==
    LET prev == editor.redo_stack[Len(editor.redo_stack)]
    IN  /\ editor' = IF editor.redo_stack = <<>> THEN editor
                     ELSE [editor EXCEPT
                              !.redo_stack = SubSeq(editor.redo_stack, 1,
                                                    Len(editor.redo_stack) - 1),
                              !.undo_stack = Append(editor.undo_stack, editor.buffer),
                              !.buffer = prev,
                              !.cursor = Min(editor.cursor, Len(prev))]
        /\ last' = [op |-> "redo", arg |-> 0, res |-> editor.redo_stack # <<>>,
                    before |-> editor.buffer]
        /\ EditorFrame

----------------------------------------------------------------------------
(* parse_markdown_to_blocks.  `parse` holds the locals of one call: the
   blocks pushed so far, position, current_block_type, current_content,
   in_code_block and code_block_lang.  The events of the Markdown parser
   are consumed one per step, in any sequence. *)

(* the character U+0060, written here with a character the module's
   strings can hold *)
BackTick == "'"

(* str::trim *)
trim(s) ==
    LET ix == {i \in 1..Len(s) : ~IsWhitespace(s[i])}
    IN  IF ix = {} THEN <<>>
        ELSE SubSeq(s, CHOOSE i \in ix : \A j \in ix : i <= j,
                       CHOOSE i \in ix : \A j \in ix : j <= i)

(* tags that set current_block_type on Start, with the type they set *)
BlockTypeOf ==
    [Heading |-> "heading_h1", List |-> "unordered_list", Item |-> "list_item",
     BlockQuote |-> "quote", Table |-> "table"]

(* tags whose End saves the accumulated content *)
BlockEnds == {"Heading", "Paragraph", "List", "Item", "BlockQuote", "Table"}

MdEvents ==
    {[k |-> "Start", tag |-> t, lang |-> <<>>] :
        t \in {"Paragraph", "Heading", "Item", "Emphasis"}}
    \cup {[k |-> "Start", tag |-> "CodeBlock", lang |-> l] : l \in {<<>>, <<"r">>}}
    \cup {[k |-> "End", tag |-> t] : t \in {"CodeBlock", "Paragraph", "Emphasis"}}
    \cup {[k |-> "Text", text |-> x] : x \in {<<"a">>, <<" ">>}}
    \cup {[k |-> "Code", text |-> <<"a">>], [k |-> "SoftBreak"], [k |-> "Rule"],
          [k |-> "FootnoteReference"]}

(* if !current_content.trim().is_empty() { blocks.push(Block::new(..));
   position += 1; current_content.clear(); } *)
SaveBlock(p, block_type, wrap) ==
    IF trim(p.current_content) = <<>> THEN p
    ELSE [p EXCEPT
             !.blocks = Append(p.blocks,
                 Block_new(p.note_id, block_type,
                           IF wrap
                           THEN <<BackTick, BackTick, BackTick>> \o p.code_block_lang \o <<"\n">>
                                \o trim(p.current_content)
                                \o <<"\n", BackTick, BackTick, BackTick>>
                           ELSE trim(p.current_content),
                           p.position)),
             !.position = p.position + 1,
             !.current_content = <<>>]

(* a Start arm that saves the accumulated content inside a code block too *)
OnStart_saves_in_code_block(p, e) ==
    LET q == SaveBlock(p, p.current_block_type, FALSE)
    IN  IF e.tag = "CodeBlock"
        THEN [q EXCEPT !.in_code_block = TRUE, !.code_block_lang = e.lang,
                       !.current_block_type = "code_block"]
        ELSE IF e.tag \in DOMAIN BlockTypeOf
        THEN [q EXCEPT !.current_block_type = BlockTypeOf[e.tag]]
        ELSE q

(* Event::Start(tag) *)
OnStart(p, e) ==
    LET q == IF p.in_code_block THEN p
             ELSE SaveBlock(p, p.current_block_type, FALSE)
    IN  IF e.tag = "CodeBlock"
        THEN [q EXCEPT !.in_code_block = TRUE, !.code_block_lang = e.lang,
                       !.current_block_type = "code_block"]
        ELSE IF e.tag \in DOMAIN BlockTypeOf
        THEN [q EXCEPT !.current_block_type = BlockTypeOf[e.tag]]
        ELSE q

(* the other arms of `match event` *)
OnEvent(p, e) ==
    CASE e.k = "Start" -> OnStart(p, e)
      [] e.k = "End" /\ e.tag = "CodeBlock" ->
            [SaveBlock(p, "code_block", TRUE) EXCEPT
                !.in_code_block = FALSE, !.code_block_lang = <<>>]
      [] e.k = "End" /\ e.tag \in BlockEnds ->
            [SaveBlock(p, p.current_block_type, FALSE) EXCEPT
                !.current_block_type = "paragraph"]
      [] e.k = "End" /\ e.tag \notin BlockEnds \cup {"CodeBlock"} -> p
      [] e.k = "Text" -> [p EXCEPT !.current_content = @ \o e.text]
      [] e.k = "Code" -> [p EXCEPT !.current_content = @ \o <<BackTick>> \o e.text
                                                \o <<BackTick>>]
      [] e.k = "SoftBreak" -> [p EXCEPT !.current_content = @ \o <<"\n">>]
      [] e.k = "Rule" ->
            LET q == SaveBlock(p, p.current_block_type, FALSE)
            IN  [q EXCEPT
                    !.blocks = Append(q.blocks,
                        Block_new(q.note_id, "horizontal_rule",
                                  <<"-", "-", "-">>, q.position)),
                    !.position = q.position + 1]
      [] e.k = "FootnoteReference" -> p

NotParsing == [pc |-> "idle"]

ParserFrame ==
    /\ trip' = NoTrip
    /\ UNCHANGED <<now, fts, cmd, editor, schema, schema_version,
                   block_references, held, notes, files, blocks, folders, tags,
                   attachments, note_folders, note_tags, links, nextId>>

(* the locals before the first event *)
parse_markdown_to_blocks(note_id) ==
    /\ parse.pc = "idle"
    /\ parse' = [pc |-> "events", note_id |-> note_id, blocks |-> <<>>,
                 position |-> 0, current_block_type |-> "paragraph",
                 current_content |-> <<>>, in_code_block |-> FALSE,
                 code_block_lang |-> <<>>, seen |-> 0]
    /\ last' = [op |-> "parse_markdown_to_blocks", note_id |-> note_id]
    /\ ParserFrame

(* one turn of `for event in parser` *)
parse_event(e) ==
    /\ parse.pc = "events"
    /\ parse' = [OnEvent(parse, e) EXCEPT !.seen = parse.seen + 1]
    /\ last' = [op |-> "parse_event", event |-> e,
                in_code_block |-> parse.in_code_block]
    /\ ParserFrame

(* after the loop: save any remaining content, Ok(blocks) *)
parse_return ==
    /\ parse.pc = "events"
    /\ parse' = [SaveBlock(parse, parse.current_block_type, FALSE) EXCEPT
                    !.pc = "returned", !.position = parse.position]
    /\ last' = [op |-> "parse_return", res |-> "Ok"]
    /\ ParserFrame

----------------------------------------------------------------------------
(* Specifications *)

Init ==
    /\ now = 1
    /\ notes = <<>>
    /\ files = <<>>
    /\ blocks = <<>>
    /\ folders = <<>>
    /\ tags = <<>>
    /\ attachments = <<>>
    /\ note_folders = <<>>
    /\ note_tags = {}
    /\ links = <<>>
    /\ nextId = [note |-> 1, folder |-> 1, tag |-> 1, block |-> 1, link |-> 1]
    /\ last = [op |-> "init", res |-> "Ok"]
    /\ trip = NoTrip
    /\ fts = [notes_fts |-> <<>>, blocks_fts |-> <<>>]
    /\ held = None
    /\ schema = SchemaObjects
    /\ schema_version = {SCHEMA_VERSION}
    /\ block_references = <<>>
    /\ cmd = NoCommands
    /\ editor = EditorCore_new(<<>>)
    /\ parse = NotParsing

OptTitles == {None} \cup {Some(t) : t \in Titles}
OptFewContents == {None} \cup {Some(c) : c \in FewContents}

NextNotes ==
    \/ Tick
    \/ /\ nextId.note <= MaxTripNotes
       /\ \E t \in OneTitle, c \in FewContents : NoteService_create(t, c)
    \/ \E id \in 1..MaxTripNotes, t \in OptTitles, c \in OptFewContents :
          NoteService_update(id, t, c)
    \/ \E id \in 1..MaxTripNotes : NoteService_delete(id)
    \/ \E id \in 1..MaxTripNotes : NoteService_restore(id)

SpecNotes == Init /\ [][NextNotes]_vars

(* create with every content up to MaxContentLen *)
NextContent ==
    \/ Tick
    \/ /\ nextId.note <= MaxContentNotes
       /\ \E t \in Titles, c \in Contents : NoteService_create(t, c)

SpecContent == Init /\ [][NextContent]_vars

(* notes, folders and the membership of notes in folders *)
NextRel ==
    \/ /\ nextId.note <= MaxNotes
       /\ \E t \in OneTitle : NoteService_create(t, <<>>)
    \/ /\ nextId.folder <= MaxRelFolders
       /\ FolderService_create("go", NULL)
    \/ \E n \in NoteIds, f \in 1..MaxRelFolders, p \in BOOLEAN, pos \in Positions :
          NoteService_add_to_folder(n, f, p, pos)
    \/ \E n \in NoteIds, f \in 1..MaxRelFolders :
          NoteService_remove_from_folder(n, f)
    \/ \E n \in NoteIds, f \in 1..MaxRelFolders, fails \in BOOLEAN :
          NoteFolderDao_set_primary(n, f, fails)

SpecRel == Init /\ [][NextRel]_vars

(* the folder tree *)
NextFolders ==
    \/ /\ nextId.note <= MaxTreeNotes
       /\ \E t \in OneTitle : NoteService_create(t, <<>>)
    \/ /\ nextId.folder <= MaxTreeFolders
       /\ \E p \in 0..MaxTreeFolders : FolderService_create("go", p)
    \/ \E id \in 1..MaxTreeFolders, p \in 0..MaxTreeFolders :
          FolderService_update(id, "go", p, <<"go">>, now, 0)
    \/ \E id \in 1..MaxTreeFolders : FolderService_delete(id)
    \/ \E n \in 1..MaxTreeNotes, f \in 1..MaxTreeFolders :
          NoteService_add_to_folder(n, f, TRUE, 0)

SpecFolders == Init /\ [][NextFolders]_vars

NextTags ==
    \/ /\ nextId.tag <= MaxTags
       /\ \E name \in Names : TagService_create(name)
    \/ \E id \in 1..MaxTags, name \in Names, color \in Colors :
          TagService_update(id, name, color)
    \/ \E id \in 1..MaxTags : TagService_delete(id)

SpecTags == Init /\ [][NextTags]_vars

NextAttach ==
    \/ \E id \in 1..MaxAttachments, fn \in FileNames, h \in Hashes :
          AttachmentDao_create(id, fn, h)
    \/ \E id \in 1..MaxAttachments, fn \in FileNames, h \in Hashes :
          AttachmentDao_update(id, fn, h)
    \/ \E id \in 1..MaxAttachments : AttachmentDao_delete(id)

SpecAttach == Init /\ [][NextAttach]_vars

NextLinks ==
    \/ /\ nextId.note <= MaxNotes
       /\ \E t \in OneTitle : NoteService_create(t, <<>>)
    \/ \E id \in NoteIds : NoteService_delete(id)
    \/ /\ nextId.block <= MaxBlocks
       /\ BlockService_create(1, "paragraph", "text", 0)
    \/ \E id \in 1..MaxBlocks : BlockService_delete(id)
    \/ \E id \in 1..MaxBlocks : BlockService_restore(id)
    \/ /\ nextId.link <= MaxLinks
       /\ \E src \in NoteIds, tgt \in NoteIds :
             LinkService_create_note_link(src, tgt, "see next")
    \/ /\ nextId.link <= MaxLinks
       /\ \E src \in 1..MaxBlocks, tgt \in 1..MaxBlocks, n \in {1, MaxNotes} :
             LinkService_create_block_reference(src, tgt, n)

SpecLinks == Init /\ [][NextLinks]_vars

(* links created, listed and deleted *)
NextLinkList ==
    \/ /\ nextId.note <= MaxNotes
       /\ \E t \in OneTitle : NoteService_create(t, <<>>)
    \/ \E id \in NoteIds : NoteService_delete(id)
    \/ /\ nextId.block <= MaxListBlocks
       /\ BlockService_create(1, "paragraph", "text", 0)
    \/ /\ nextId.link <= MaxListLinks
       /\ \E src \in NoteIds, tgt \in NoteIds :
             LinkService_create_note_link(src, tgt, "see next")
    \/ /\ nextId.link <= MaxListLinks
       /\ \E n \in NoteIds : LinkService_create_block_reference(1, 1, n)
    \/ \E id \in 1..MaxListLinks : LinkService_delete(id)

SpecLinkList == Init /\ [][NextLinkList]_vars

(* a note and its blocks: edits, soft deletes and restores *)
NextBlocks ==
    \/ /\ nextId.note <= MaxDocNotes
       /\ \E t \in OneTitle : NoteService_create(t, <<>>)
    \/ \E id \in 1..MaxDocNotes :
          NoteService_update(id, Some(<<"a", " ", "-", "b">>), None)
    \/ \E id \in 1..MaxDocNotes : NoteService_delete(id)
    \/ \E id \in 1..MaxDocNotes : NoteService_restore(id)
    \/ /\ nextId.block <= MaxDocBlocks
       /\ BlockService_create(1, "paragraph", "text", 0)
    \/ \E id \in 1..MaxDocBlocks, d \in BOOLEAN : BlockService_get_by_id(id, d)
    \/ \E c \in {None, Some("new")}, flag \in {"keep", "soft_delete", "restore"} :
          BlockService_update(c, flag)
    \/ \E id \in 1..MaxDocBlocks : BlockService_update_content(id, "new")
    \/ \E id \in 1..MaxDocBlocks : BlockService_update_position(id, 1)
    \/ \E id \in 1..MaxDocBlocks : BlockService_delete(id)
    \/ \E id \in 1..MaxDocBlocks : BlockService_restore(id)

SpecBlocks == Init /\ [][NextBlocks]_vars

(* a note with a block, a link, a folder and a tag, soft-deleted and
   restored next to another note *)
NextFrame ==
    \/ /\ nextId.note <= MaxNotes
       /\ \E t \in OneTitle : NoteService_create(t, <<"a", " ", "a">>)
    \/ \E id \in NoteIds : NoteService_delete(id)
    \/ \E id \in NoteIds : NoteService_restore(id)
    \/ /\ nextId.folder <= MaxTreeNotes
       /\ FolderService_create("go", NULL)
    \/ NoteService_add_to_folder(1, 1, TRUE, 0)
    \/ /\ nextId.tag <= MaxTreeNotes
       /\ TagService_create("go")
    \/ NoteService_add_tag(1, 1)
    \/ /\ nextId.block <= MaxDocBlocks
       /\ BlockService_create(1, "paragraph", "text", 0)
    \/ \E id \in 1..MaxDocBlocks : BlockService_delete(id)
    \/ \E id \in 1..MaxDocBlocks : BlockService_restore(id)
    \/ /\ nextId.link <= MaxLinks
       /\ LinkService_create_note_link(1, 2, "see next")

SpecFrame == Init /\ [][NextFrame]_vars

(* folders created under one another, renamed and moved *)
NextPaths ==
    \/ /\ nextId.folder <= MaxPathFolders
       /\ \E name \in {"go", "rust"}, p \in 0..MaxPathFolders :
             FolderService_create(name, p)
    \/ \E id \in 1..MaxPathFolders, p \in 0..MaxPathFolders :
          FolderService_update(id, "Rust", p, <<"Rust">>, now, 1)

SpecPaths == Init /\ [][NextPaths]_vars

(* Junction rows against hard deletes of their parents: one folder tree of
   up to MaxJnFolders folders, MaxJnTags tags, MaxTreeNotes notes; adds
   also name notes, folders and tags that were never created. *)
NextJunction ==
    \/ /\ nextId.note <= MaxTreeNotes
       /\ \E t \in OneTitle : NoteService_create(t, <<>>)
    \/ /\ nextId.folder <= MaxJnFolders
       /\ \E p \in {NULL, 1} : FolderService_create("go", p)
    \/ /\ nextId.tag <= MaxJnTags
       /\ \E name \in {"go", "rust"} : TagService_create(name)
    \/ \E n \in {1, MaxTreeNotes + 1}, f \in 1..(MaxJnFolders + 1) :
          NoteService_add_to_folder(n, f, FALSE, 0)
    \/ \E n \in {1, MaxTreeNotes + 1}, t \in 1..(MaxJnTags + 1) :
          NoteService_add_tag(n, t)
    \/ \E id \in 1..MaxJnFolders : FolderService_delete(id)
    \/ \E id \in 1..MaxJnTags : TagService_delete(id)

SpecJunction == Init /\ [][NextJunction]_vars

(* A file that did not exist before the connection was opened *)
BlankFile ==
    /\ now = 1
    /\ notes = <<>>
    /\ files = <<>>
    /\ blocks = <<>>
    /\ folders = <<>>
    /\ tags = <<>>
    /\ attachments = <<>>
    /\ note_folders = <<>>
    /\ note_tags = {}
    /\ links = <<>>
    /\ nextId = [note |-> 1, folder |-> 1, tag |-> 1, block |-> 1, link |-> 1]
    /\ last = [op |-> "open", res |-> "Ok"]
    /\ trip = NoTrip
    /\ fts = [notes_fts |-> <<>>, blocks_fts |-> <<>>]
    /\ held = None
    /\ schema = {}
    /\ schema_version = {}
    /\ block_references = <<>>
    /\ cmd = NoCommands
    /\ editor = EditorCore_new(<<>>)
    /\ parse = NotParsing

(* Opening the store again and again, with or without a fault, and
   writing rows whenever a context could be built. *)
NextSchema ==
    \/ \E fault \in 0..Len(init_statements) : init_database(fault)
    \/ /\ StoreOpened
       /\ nextId.note <= MaxTreeNotes
       /\ \E t \in OneTitle : NoteService_create(t, <<>>)
    \/ /\ StoreOpened
       /\ nextId.tag <= MaxJnTags
       /\ TagService_create("go")
    \/ /\ StoreOpened
       /\ NoteService_add_tag(1, 1)

SpecSchema == BlankFile /\ [][NextSchema]_vars

(* no row with this id, or a soft-deleted one *)
Unusable(rows, id) == IF id \in DOMAIN rows THEN rows[id].is_deleted ELSE TRUE

(* Blocks and block references under soft deletion of notes and blocks;
   creates also name a note and blocks that were never created. *)
NextRefs ==
    \/ /\ nextId.note <= MaxDocNotes
       /\ \E t \in OneTitle : NoteService_create(t, <<>>)
    \/ NoteService_delete(1)
    \/ NoteService_restore(1)
    \/ /\ nextId.block <= MaxRefBlocks
       /\ \E n \in {1, MaxDocNotes + 1} : BlockService_create(n, "paragraph", "text", 0)
    \/ \E id \in 1..MaxRefBlocks : BlockService_delete(id)
    \/ \E id \in 1..MaxRefBlocks : BlockService_restore(id)
    \/ \E s, t \in 1..(MaxRefBlocks + 1) :
          /\ Len(block_references) < MaxRefs \/ Unusable(blocks, s) \/ Unusable(blocks, t)
          /\ BlockService_create_reference(s, t)
    \/ \E s, t \in 1..MaxRefBlocks : BlockService_delete_reference(s, t)

SpecRefs == Init /\ [][NextRefs]_vars

(* Notes on a store that may refuse a relational write *)
NextFaults ==
    \/ Tick
    \/ /\ nextId.note <= MaxTripNotes
       /\ \E t \in OneTitle, c \in FewContents : NoteService_create(t, c)
    \/ /\ nextId.note <= MaxTripNotes
       /\ \E t \in OneTitle, c \in FewContents : NoteService_create_db_error(t, c)
    \/ \E id \in 1..MaxTripNotes, t \in OptTitles, c \in OptFewContents :
          NoteService_update(id, t, c)
    \/ \E id \in 1..MaxTripNotes, t \in OptTitles, c \in OptFewContents :
          NoteService_update_db_error(id, t, c)

SpecFaults == Init /\ [][NextFaults]_vars

TitleQueries == {<<"h", "i">>, <<"b">>, <<"_">>}

(* Listing and searching notes created, soft-deleted and restored at
   different times *)
NextSearch ==
    \/ Tick
    \/ /\ nextId.note <= MaxNotes
       /\ \E t \in Titles : NoteService_create(t, <<>>)
    \/ \E id \in NoteIds : NoteService_delete(id)
    \/ \E d \in BOOLEAN : NoteService_list(d)
    \/ \E q \in TitleQueries, d \in BOOLEAN : NoteService_search_by_title(q, d)

SpecSearch == Init /\ [][NextSearch]_vars

(* The blocks of one note, placed, moved and soft-deleted *)
NextOrder ==
    \/ /\ nextId.note <= MaxDocNotes
       /\ \E t \in OneTitle : NoteService_create(t, <<>>)
    \/ /\ nextId.block <= MaxRefBlocks
       /\ \E pos \in Positions : BlockService_create(1, "paragraph", "text", pos)
    \/ \E id \in 1..MaxRefBlocks, pos \in Positions :
          BlockService_update_position(id, pos)
    \/ \E id \in 1..MaxRefBlocks : BlockService_delete(id)
    \/ \E d \in BOOLEAN : BlockService_get_by_note(1, d)

SpecOrder == Init /\ [][NextOrder]_vars

(* is_primary and position of a new note_folders row *)
Placements ==
    {[is_primary |-> TRUE, position |-> 1], [is_primary |-> FALSE, position |-> 0],
     [is_primary |-> FALSE, position |-> 1]}

(* Notes entering and leaving folders and tags; the first note is placed
   in every way, the others as plain members at position 0 *)
NextMembership ==
    \/ /\ nextId.note <= MaxTripNotes
       /\ \E t \in OneTitle : NoteService_create(t, <<>>)
    \/ /\ nextId.folder <= MaxRelFolders
       /\ FolderService_create("go", NULL)
    \/ /\ nextId.tag <= MaxJnTags
       /\ TagService_create("go")
    \/ \E n \in 1..MaxTripNotes, f \in 1..MaxRelFolders :
          \E pl \in IF n = 1 THEN Placements ELSE {[is_primary |-> FALSE, position |-> 0]} :
              NoteService_add_to_folder(n, f, pl.is_primary, pl.position)
    \/ \E n \in 1..MaxTripNotes, f \in 1..MaxRelFolders :
          NoteService_remove_from_folder(n, f)
    \/ NoteService_add_tag(1, 1)
    \/ NoteService_remove_tag(1, 1)

SpecMembership == Init /\ [][NextMembership]_vars

(* Titles for slugify: every title of up to MaxTitleLen characters over
   SlugChars, and one title longer than the cap whose character at the cap
   is a space *)
SlugChars == {"a", "H", "_", " ", "-"}

LongTitle == [i \in 1..(SlugCap + 1) |-> IF i = SlugCap THEN " " ELSE "a"]

SlugTitles == SeqsUpTo(SlugChars, MaxTitleLen) \cup {LongTitle}

(* the helper applied to one title *)
NoteService_slugify(title) ==
    /\ last' = [op |-> "NoteService::slugify", title |-> title, res |-> "Ok",
                out |-> slugify(title)]
    /\ trip' = NoTrip
    /\ UNCHANGED <<now, fts, cmd, editor, parse, schema, schema_version, block_references, held,
                   notes, files, blocks, folders, tags, attachments,
                   note_folders, note_tags, links, nextId>>

NextSlug == \E title \in SlugTitles : NoteService_slugify(title)

SpecSlug == Init /\ [][NextSlug]_vars

(* Two update_note commands in flight on one note store *)
NextCmds ==
    \/ Tick
    \/ /\ nextId.note <= MaxTripNotes
       /\ \E t \in OneTitle : NoteService_create(t, <<>>)
    \/ \E c \in DOMAIN cmd, id \in 1..MaxTripNotes : update_note_read(c, id)
    \/ \E c \in DOMAIN cmd : update_note_write_file(c)
    \/ \E c \in DOMAIN cmd : update_note_write_row(c)

SpecCmds == Init /\ [][NextCmds]_vars

(* texts typed into the editor *)
EditorTexts == {<<"a">>, <<"b">>}

(* One editor driven by its caller: edits, cursor and selection moves,
   undo and redo, in any order *)
NextEditor ==
    \/ \E index \in 0..(MaxBufLen + 1) : EditorCore_set_cursor(index)
    \/ \E anchor \in {0, MaxBufLen + 1} :
          EditorCore_set_selection(anchor, MaxBufLen + 1)
    \/ /\ Len(editor.buffer) < MaxBufLen
       /\ Len(editor.undo_stack) <= MaxHistory
       /\ \E text \in EditorTexts : EditorCore_insert_at_cursor(text)
    \/ /\ Len(editor.undo_stack) <= MaxHistory
       /\ \E n \in 0..2 : EditorCore_delete_backward(n)
    \/ /\ Len(editor.undo_stack) <= MaxHistory
       /\ \E n \in 0..2 : EditorCore_delete_forward(n)
    \/ EditorCore_undo
    \/ EditorCore_redo

SpecEditor == Init /\ [][NextEditor]_vars

(* One call of the parser over every sequence of at most MaxEvents events *)
NextParser ==
    \/ \E note_id \in 1..2 : parse_markdown_to_blocks(note_id)
    \/ /\ parse.pc = "events"
       /\ parse.seen < MaxEvents
       /\ \E e \in MdEvents : parse_event(e)
    \/ parse_return

SpecParser == Init /\ [][NextParser]_vars

Next ==
    \/ NextNotes \/ NextContent \/ NextRel \/ NextFolders
    \/ NextTags \/ NextAttach \/ NextLinks \/ NextLinkList \/ NextBlocks
    \/ NextFrame \/ NextPaths \/ NextJunction \/ NextSchema
    \/ NextRefs \/ NextFaults \/ NextSearch
    \/ NextOrder \/ NextMembership \/ NextSlug
    \/ NextCmds \/ NextEditor \/ NextParser

Spec == Init /\ [][Next]_vars

----------------------------------------------------------------------------
(* Claims *)

PrimaryFoldersOf(rows, n) == {k \in DOMAIN rows : k[1] = n /\ rows[k].is_primary}

(* C1: after any sequence of add (is_primary true or false), remove and
   set_primary calls, at most one note_folders row of a note is primary. *)
C1_AtMostOnePrimary ==
    \A n \in NoteIds : Cardinality(PrimaryFoldersOf(note_folders, n)) <= 1

(* C2: after set_primary(note_id, folder_id) returns Ok the row
   (note_id, folder_id) is primary, every other row of that note is not,
   and the rows of other notes are unchanged. *)
C2_SetPrimaryPostcondition ==
    [][(last'.op = "NoteFolderDao::set_primary" /\ last'.res = "Ok") =>
          LET n == last'.note_id
              f == last'.folder_id
          IN  /\ PrimaryFoldersOf(note_folders', n) = {<<n, f>>}
              /\ DOMAIN note_folders' = DOMAIN note_folders
              /\ \A k \in DOMAIN note_folders :
                    k[1] # n => note_folders'[k] = note_folders[k]]_vars

(* C3: set_primary is one unit: when it returns an error, none of its
   writes is persisted, so a note that had a primary folder still has it. *)
C3_SetPrimaryAllOrNothing ==
    [][(last'.op = "NoteFolderDao::set_primary" /\ last'.res # "Ok") =>
          note_folders' = note_folders]_vars

(* the number of maximal runs of non-whitespace characters *)
TokenCount(s) ==
    Cardinality({i \in 1..Len(s) :
                    ~IsWhitespace(s[i]) /\ (i = 1 \/ IsWhitespace(s[i - 1]))})

(* C4: right after create(title, content) returned note n, get_by_id(n.id)
   returns the content given and a word_count equal to the number of
   whitespace-delimited tokens of that content. *)
C4_CreateThenGet ==
    (last.op = "NoteService::create" /\ last.res = "Ok") =>
        LET got == NoteService_get_by_id(last.id, FALSE)
        IN  /\ got.some
            /\ got.v.content = last.content
            /\ got.v.note.title = last.title
            /\ got.v.note.word_count = TokenCount(last.content)

C4_Witness ==
    /\ last.op = "NoteService::create"
    /\ last.content = <<"a", "\n", "a">>
    /\ NoteService_get_by_id(last.id, FALSE).v.note.word_count = 2

(* a record without its timestamps *)
StripTimes(r) ==
    [title |-> r.note.title, content_path |-> r.note.content_path,
     word_count |-> r.note.word_count, is_deleted |-> r.note.is_deleted,
     content |-> r.content]

(* between delete(id) and restore(id) of an existing note the default
   lookup finds nothing and the include_deleted lookup finds the record,
   flagged deleted and otherwise as before *)
BetweenDeleteAndRestore ==
    (trip.stage = "deleted" /\ trip.pre.some) =>
        LET seen == NoteService_get_by_id(trip.id, TRUE)
        IN  /\ NoteService_get_by_id(trip.id, FALSE) = None
            /\ seen.some
            /\ seen.v.note.is_deleted
            /\ [StripTimes(seen.v) EXCEPT !.is_deleted = FALSE] =
               [StripTimes(trip.pre.v) EXCEPT !.is_deleted = FALSE]

(* C5 as stated: for ANY existing note, delete(id) then restore(id) yields
   a record equal to the pre-delete record in every field other than the
   timestamps, and between the two calls get_by_id(id, false) is absent
   while get_by_id(id, true) returns the record. *)
C5_RoundTripAnyExisting ==
    /\ BetweenDeleteAndRestore
    /\ (trip.stage = "restored" /\ trip.pre.some) =>
          LET back == NoteService_get_by_id(trip.id, FALSE)
          IN  back.some /\ StripTimes(back.v) = StripTimes(trip.pre.v)

(* C5 amended: the same for any existing note that is not soft-deleted
   when delete(id) is called; for such a note the restored record equals
   the pre-delete record in every field, timestamps included. *)
C5_RoundTripActive ==
    /\ BetweenDeleteAndRestore
    /\ (trip.stage = "restored" /\ trip.pre.some /\ ~trip.pre.v.note.is_deleted) =>
          LET back == NoteService_get_by_id(trip.id, FALSE)
          IN  back = trip.pre

C5_Witness ==
    /\ trip.stage = "restored"
    /\ trip.pre.some
    /\ ~trip.pre.v.note.is_deleted
    /\ trip.pre.v.content # <<>>
    /\ now > trip.pre.v.note.updated_at

(* C7: FolderService::delete of a folder with a child folder fails with
   InvalidInput and changes no folders or note_folders row; of a folder
   without children it succeeds and the folder row is gone. *)
C7_FolderDeleteGuard ==
    [][last'.op = "FolderService::delete" =>
          IF \E c \in DOMAIN folders : folders[c].parent_id = last'.id
          THEN /\ last'.res = "InvalidInput"
               /\ folders' = folders
               /\ note_folders' = note_folders
          ELSE /\ last'.res = "Ok"
               /\ last'.id \notin DOMAIN folders'
               /\ DOMAIN folders' = DOMAIN folders \ {last'.id}]_vars

C7_Witness ==
    /\ last.op = "FolderService::delete"
    /\ last.res = "InvalidInput"
    /\ \E c \in DOMAIN folders : c # last.id /\ folders[c].parent_id = last.id
    /\ \E k \in DOMAIN note_folders : k[2] = last.id

(* following parent_id from f reaches NULL within `steps` rows *)
RECURSIVE ReachesRoot(_, _)
ReachesRoot(f, steps) ==
    IF f = NULL THEN TRUE
    ELSE IF steps = 0 \/ f \notin DOMAIN folders THEN FALSE
    ELSE ReachesRoot(folders[f].parent_id, steps - 1)

(* C8: after any sequence of FolderService create, update and delete calls
   every folder reaches a root by following parent_id: no cycle. *)
C8_FoldersFormTree ==
    \A f \in DOMAIN folders : ReachesRoot(f, Cardinality(DOMAIN folders))

(* C6: TagService::create with a name that already exists fails with
   InvalidInput and inserts nothing, and after any create, update (rename)
   or delete no two tag rows hold the same name; names differing only in
   case are different names. *)
C6_TagNamesUnique ==
    [][/\ \A t1, t2 \in DOMAIN tags' :
             t1 # t2 => tags'[t1].name # tags'[t2].name
       /\ (last'.op = "TagService::create" /\
           \E t \in DOMAIN tags : tags[t].name = last'.name) =>
             (last'.res = "InvalidInput" /\ tags' = tags)
       /\ (last'.op = "TagService::create" /\
           \A t \in DOMAIN tags : tags[t].name # last'.name) =>
             (last'.res = "Ok" /\ tags'[last'.id].name = last'.name)]_vars

C6_Witness ==
    /\ last.op = "TagService::create"
    /\ last.res = "InvalidInput"
    /\ last.name = "rust"
    /\ \E t1, t2 \in DOMAIN tags :
          tags[t1].name = "Rust" /\ tags[t2].name = "rust"

(* C9: after any sequence of AttachmentDao create, update and delete no two
   attachment rows hold the same hash; a create whose hash a row already
   holds is rejected and inserts nothing, and get_by_hash returns that
   single row. *)
C9_AttachmentHashUnique ==
    [][/\ \A a1, a2 \in DOMAIN attachments' :
             a1 # a2 => attachments'[a1].hash # attachments'[a2].hash
       /\ (last'.op = "AttachmentDao::create" /\
           \E a \in DOMAIN attachments : attachments[a].hash = last'.hash) =>
             /\ last'.res # "Ok"
             /\ attachments' = attachments
             /\ LET holders == {a \in DOMAIN attachments :
                                   attachments[a].hash = last'.hash}
                IN  /\ Cardinality(holders) = 1
                    /\ AttachmentDao_get_by_hash(last'.hash).some
                    /\ AttachmentDao_get_by_hash(last'.hash).v \in holders]_vars

C9_Witness ==
    /\ last.op = "AttachmentDao::create"
    /\ last.res = "Database"
    /\ last.id \notin DOMAIN attachments
    /\ \E a \in DOMAIN attachments : attachments[a].hash = last.hash
    /\ Cardinality(DOMAIN attachments) >= 2

(* no row, or a soft-deleted row *)
Absent(rows, id) == id \notin DOMAIN rows \/ rows[id].is_deleted

(* C10: create_note_link and create_block_reference fail with NotFound,
   naming the missing side, and insert no link row whenever the source or
   the target endpoint (the two notes of a note link, the two blocks of a
   block reference) does not exist or is soft-deleted at the call. *)
C10_LinkValidation ==
    [][/\ last'.op = "LinkService::create_note_link" =>
             /\ Absent(notes, last'.link.source_note_id) =>
                   /\ last'.res = "NotFound" /\ last'.missing = "Source note"
                   /\ links' = links
             /\ (~Absent(notes, last'.link.source_note_id) /\
                 Absent(notes, last'.link.target_note_id)) =>
                   /\ last'.res = "NotFound" /\ last'.missing = "Target note"
                   /\ links' = links
       /\ last'.op = "LinkService::create_block_reference" =>
             /\ Absent(blocks, last'.link.source_block_id) =>
                   /\ last'.res = "NotFound" /\ last'.missing = "Source block"
                   /\ links' = links
             /\ (~Absent(blocks, last'.link.source_block_id) /\
                 Absent(blocks, last'.link.target_block_id)) =>
                   /\ last'.res = "NotFound" /\ last'.missing = "Target block"
                   /\ links' = links]_vars

C10_Witness ==
    /\ last.op = "LinkService::create_note_link"
    /\ last.res = "NotFound"
    /\ last.missing = "Target note"
    /\ last.link.target_note_id \in DOMAIN notes
    /\ notes[last.link.target_note_id].is_deleted
    /\ links = <<>>

(* C11: get_outgoing_links(A) is exactly the links created with source A
   and not since deleted, each as given at creation: a successful creation
   with source A adds its link (the target and text of the call) to the
   listing of A, LinkService::delete removes the deleted link, and nothing
   else changes any listing; and a note link is in the outgoing listing of
   its source iff it is in the incoming listing of its target. *)
C11_LinkListing ==
    /\ [](\A i \in DOMAIN links :
            links[i].link_type = "note_link" =>
               LET e == [id |-> i, link |-> links[i]]
               IN  /\ e \in LinkDao_get_outgoing_links(links[i].source_note_id)
                   /\ e \in LinkDao_get_incoming_links(links[i].target_note_id))
    /\ [](\A A \in NoteIds :
            /\ \A e \in LinkDao_get_outgoing_links(A) :
                  e.link.source_note_id = A /\ e.id \in DOMAIN links
            /\ \A e \in LinkDao_get_incoming_links(A) :
                  e.link.target_note_id = A /\ e.id \in DOMAIN links)
    /\ [][\A A \in NoteIds :
            LET created == nextId'.link # nextId.link
                added == IF created /\ last'.link.source_note_id = A
                         THEN {[id |-> last'.id, link |-> last'.link]} ELSE {}
                removed == IF last'.op = "LinkService::delete"
                           THEN {e \in LinkDao_get_outgoing_links(A) :
                                    e.id = last'.id}
                           ELSE {}
            IN  LinkDao_get_outgoing_links(A)' =
                   (LinkDao_get_outgoing_links(A) \cup added) \ removed]_vars

C11_Witness ==
    /\ DOMAIN links = {2}
    /\ LinkDao_get_outgoing_links(1) =
          {[id |-> 2, link |-> [source_note_id |-> 1, target_note_id |-> 2,
                                source_block_id |-> NULL, target_block_id |-> NULL,
                                link_type |-> "note_link", link_text |-> "see next",
                                created_at |-> now]]}
    /\ LinkDao_get_incoming_links(2) = LinkDao_get_outgoing_links(1)
    /\ LinkDao_get_outgoing_links(2) = {}

(* C12: search is in step with writes: right after NoteService::create the
   search for any word of the title returns the new note, and right after
   NoteService::delete of a note the search for a word of its title leaves
   it out with include_deleted = false and returns it with
   include_deleted = true. *)
C12_SearchInStep ==
    [][/\ nextId'.note # nextId.note =>
             \A w \in Terms(last'.title) :
                last'.id \in SearchService_search_notes(w, FALSE)'
       /\ (last'.op = "NoteService::delete" /\ notes' # notes) =>
             \A w \in Terms(notes[last'.id].title) :
                /\ last'.id \notin SearchService_search_notes(w, FALSE)'
                /\ last'.id \in SearchService_search_notes(w, TRUE)']_vars

(* the step changes the deletion state of note id / block id *)
NoteFlips(id) ==
    id \in DOMAIN notes /\ notes'[id].is_deleted # notes[id].is_deleted

BlockFlips(id) ==
    id \in DOMAIN blocks /\ blocks'[id].is_deleted # blocks[id].is_deleted

(* the step is the delete or the restore that makes exactly this transition *)
ByDeleteOrRestore(kind, id, nowDeleted) ==
    /\ last'.id = id
    /\ last'.op = kind \o (IF nowDeleted THEN "::delete" ELSE "::restore")

(* the caller of BlockService::update himself set or cleared the deletion
   fields of the record (Block::soft_delete / Block::restore) *)
CallerSetDeletion ==
    last'.op = "BlockService::update" /\ last'.flag # "keep"

(* C13 as stated: a note or block row goes from Active to Deleted only
   through delete (soft_delete) and from Deleted to Active only through
   restore; no other operation, BlockService::update given a record read
   earlier included, changes a row's deletion state. *)
C13_OnlyDeleteAndRestore ==
    [][/\ \A id \in DOMAIN notes :
             NoteFlips(id) =>
                ByDeleteOrRestore("NoteService", id, notes'[id].is_deleted)
       /\ \A id \in DOMAIN blocks :
             BlockFlips(id) =>
                \/ ByDeleteOrRestore("BlockService", id, blocks'[id].is_deleted)
                \/ CallerSetDeletion]_vars

(* C13 amended: the same, except that BlockService::update overwrites
   is_deleted and deleted_at of the row with the values of the record it is
   given, so a record read before a later delete or restore reverts that
   transition. *)
C13_DeleteRestoreOrOverwrite ==
    [][/\ \A id \in DOMAIN notes :
             NoteFlips(id) =>
                ByDeleteOrRestore("NoteService", id, notes'[id].is_deleted)
       /\ \A id \in DOMAIN blocks :
             BlockFlips(id) =>
                \/ ByDeleteOrRestore("BlockService", id, blocks'[id].is_deleted)
                \/ /\ last'.op = "BlockService::update"
                   /\ last'.id = id
                   /\ blocks'[id].is_deleted = last'.block.is_deleted
                   /\ blocks'[id].deleted_at = last'.block.deleted_at]_vars

(* a block that was read while active, then soft-deleted, is active again
   after BlockService::update with the record read *)
C13_Witness ==
    /\ last.op = "BlockService::update"
    /\ last.before.some
    /\ last.before.v.is_deleted
    /\ last.flag = "keep"
    /\ ~last.block.is_deleted
    /\ ~blocks[last.id].is_deleted
    /\ blocks[last.id].content = "new"
    /\ held.v.block = blocks[last.id]

(* C14: in every reachable state every note row and every block row has
   deleted_at set (non-null) if and only if is_deleted is true. *)
C14_DeletedAtIffIsDeleted ==
    /\ \A id \in DOMAIN notes :
          (notes[id].deleted_at # NULL) <=> notes[id].is_deleted
    /\ \A id \in DOMAIN blocks :
          (blocks[id].deleted_at # NULL) <=> blocks[id].is_deleted

(* a soft-deleted note next to a block written as deleted by
   BlockService::update and restored since *)
C14_Witness ==
    /\ \E id \in DOMAIN notes : notes[id].is_deleted /\ notes[id].deleted_at = now
    /\ last.op = "BlockService::restore"
    /\ last.id \in DOMAIN blocks
    /\ blocks[last.id].deleted_at = NULL
    /\ held.some /\ held.v.id = last.id /\ held.v.block.is_deleted

(* a row apart from its two deletion columns *)
ButDeletion(row) == [row EXCEPT !.is_deleted = FALSE, !.deleted_at = NULL]

(* every row of the table other than id is the same, and row id differs at
   most in is_deleted and deleted_at *)
OnlyDeletionOf(before, after, id) ==
    /\ DOMAIN after = DOMAIN before
    /\ \A k \in DOMAIN before :
          IF k = id THEN ButDeletion(after[k]) = ButDeletion(before[k])
          ELSE after[k] = before[k]

(* C15: soft delete and restore do not cascade: NoteService::delete and
   restore change only is_deleted and deleted_at of that note; its blocks,
   links, folder and tag memberships, its content file and all other notes
   are unchanged; BlockService::delete and restore change only the two
   fields of that block. *)
C15_NoCascade ==
    [][/\ last'.op \in {"NoteService::delete", "NoteService::restore"} =>
             /\ OnlyDeletionOf(notes, notes', last'.id)
             /\ UNCHANGED <<blocks, links, note_folders, note_tags, files,
                            folders, tags>>
       /\ last'.op \in {"BlockService::delete", "BlockService::restore"} =>
             /\ OnlyDeletionOf(blocks, blocks', last'.id)
             /\ UNCHANGED <<notes, links, note_folders, note_tags, files,
                            folders, tags>>]_vars

(* note 1, soft-deleted, still has its block, link, folder, tag and file *)
C15_Witness ==
    /\ last.op = "NoteService::delete"
    /\ last.id = 1
    /\ 1 \in DOMAIN notes
    /\ notes[1].is_deleted
    /\ \E b \in DOMAIN blocks : blocks[b].note_id = 1 /\ ~blocks[b].is_deleted
    /\ \E l \in DOMAIN links : links[l].source_note_id = 1
    /\ <<1, 1>> \in DOMAIN note_folders
    /\ <<1, 1>> \in note_tags
    /\ files[notes[1].content_path] = <<"a", " ", "a">>
    /\ 2 \in DOMAIN notes /\ ~notes[2].is_deleted

(* C16: NoteService::update(id, title?, content?) on an active note: with a
   content the file is rewritten, get_by_id returns the new content and
   word_count is its whitespace-token count; with a title only, the file
   content and word_count are unchanged; updated_at is refreshed whenever a
   title or a content is given; id, content_path, created_at and the
   deletion state never change, and no other note changes. *)
C16_UpdateEffects ==
    [][\A id \in NoteIds :
        (/\ now' = now /\ last'.op = "NoteService::update"
         /\ last'.res = "Ok" /\ last'.id = id) =>
          LET pre == NoteService_get_by_id(id, FALSE)
              post == NoteService_get_by_id(id, FALSE)'
          IN  /\ pre.some /\ post.some
              /\ last'.content.some =>
                    /\ post.v.content = last'.content.v
                    /\ post.v.note.word_count = TokenCount(last'.content.v)
              /\ ~last'.content.some =>
                    /\ post.v.content = pre.v.content
                    /\ post.v.note.word_count = pre.v.note.word_count
              /\ (last'.title.some \/ last'.content.some) =>
                    post.v.note.updated_at = now
              /\ post.v.note.content_path = pre.v.note.content_path
              /\ post.v.note.created_at = pre.v.note.created_at
              /\ post.v.note.is_deleted = pre.v.note.is_deleted
              /\ post.v.note.deleted_at = pre.v.note.deleted_at
              /\ DOMAIN notes' = DOMAIN notes
              /\ \A n \in DOMAIN notes \ {id} : notes'[n] = notes[n]]_vars

(* a title-only update, later than the creation, of a note with content *)
C16_Witness ==
    /\ last.op = "NoteService::update"
    /\ last.res = "Ok"
    /\ last.title.some /\ ~last.content.some
    /\ notes[last.id].title = last.title.v
    /\ notes[last.id].title # <<"H", "i", "!">>
    /\ notes[last.id].word_count = 2
    /\ notes[last.id].updated_at = now
    /\ notes[last.id].created_at < now
    /\ files[notes[last.id].content_path] = <<"a", " ", "a">>

(* no row of any table and no content file changes *)
NothingWritten ==
    UNCHANGED <<notes, files, blocks, folders, tags, attachments,
                note_folders, note_tags, links, fts>>

(* C17: NoteService::update of an id that has no row, or whose note is
   soft-deleted, returns NotFound and changes neither any row nor any
   content file. *)
C17_UpdateNotFound ==
    [][\A id \in NoteIds :
        (/\ now' = now /\ last'.op = "NoteService::update" /\ last'.id = id
         /\ Absent(notes, id)) =>
            /\ last'.res = "NotFound"
            /\ NothingWritten]_vars

(* an update with a new content of a soft-deleted note was refused and the
   file still has the old content *)
C17_Witness ==
    /\ last.op = "NoteService::update"
    /\ last.res = "NotFound"
    /\ last.content = Some(<<>>)
    /\ last.id \in DOMAIN notes
    /\ notes[last.id].is_deleted
    /\ notes[last.id].word_count = 2
    /\ files[notes[last.id].content_path] = <<"a", " ", "a">>

(* C18: NoteService::delete, NoteService::restore, BlockService::delete and
   BlockService::restore called with an id that has no row return NotFound
   and change nothing. *)
C18_AbsentRowNotFound ==
    [][/\ (/\ last'.op \in {"NoteService::delete", "NoteService::restore"}
           /\ last'.id \notin DOMAIN notes) =>
             /\ last'.res = "NotFound"
             /\ NothingWritten
       /\ (/\ last'.op \in {"BlockService::delete", "BlockService::restore"}
           /\ last'.id \notin DOMAIN blocks) =>
             /\ last'.res = "NotFound"
             /\ NothingWritten]_vars

(* C19: FolderService::create(name, parent_id?) with a parent_id that names
   no folder fails with NotFound and inserts no row; otherwise the new
   folder's stored path is the parent's stored path at that moment followed
   by "/" and the name ("/" and the name for a root), its parent_id is the
   given one, and no other folder row changes. *)
C19_CreatePath ==
    [][last'.op = "FolderService::create" =>
          IF last'.parent_id # NULL /\ last'.parent_id \notin DOMAIN folders
          THEN last'.res = "NotFound" /\ folders' = folders
          ELSE /\ last'.res = "Ok"
               /\ DOMAIN folders' = DOMAIN folders \cup {last'.id}
               /\ last'.id \notin DOMAIN folders
               /\ folders'[last'.id].name = last'.name
               /\ folders'[last'.id].parent_id = last'.parent_id
               /\ folders'[last'.id].path =
                     (IF last'.parent_id = NULL THEN <<>>
                      ELSE folders[last'.parent_id].path) \o <<last'.name>>
               /\ \A f \in DOMAIN folders : folders'[f] = folders[f]]_vars

(* a folder created under a renamed parent: its path continues the stored
   path of the parent *)
C19_Witness ==
    /\ last.op = "FolderService::create"
    /\ last.res = "Ok"
    /\ last.parent_id # NULL
    /\ folders[last.parent_id].name = "Rust"
    /\ folders[last.parent_id].parent_id # NULL
    /\ folders[last.id].path = <<"Rust", "go">>

(* C20: FolderService::update of a folder (rename or re-parent) writes only
   that folder's row, with the values the caller supplies; the stored path
   of every other folder, descendants of the updated folder included, is
   unchanged. *)
C20_UpdateWritesOneRow ==
    [][last'.op = "FolderService::update" =>
          /\ DOMAIN folders' = DOMAIN folders
          /\ \A f \in DOMAIN folders :
                IF f = last'.id /\ last'.res = "Ok"
                THEN /\ folders'[f].name = last'.folder.name
                     /\ folders'[f].parent_id = last'.folder.parent_id
                     /\ folders'[f].path = last'.folder.path
                     /\ folders'[f].position = last'.folder.position
                     /\ folders'[f].updated_at = last'.folder.updated_at
                     /\ folders'[f].created_at = folders[f].created_at
                ELSE folders'[f] = folders[f]]_vars

(* a renamed root whose child and grandchild keep the paths they were
   created with *)
C20_Witness ==
    /\ last.op = "FolderService::update"
    /\ last.res = "Ok"
    /\ last.id \in DOMAIN folders
    /\ folders[last.id].path = <<"Rust">>
    /\ folders[last.id].parent_id = NULL
    /\ \E c, g \in DOMAIN folders :
          /\ folders[c].parent_id = last.id
          /\ folders[c].path = <<"go", "rust">>
          /\ folders[g].parent_id = c
          /\ folders[g].path = <<"go", "rust", "go">>


----------------------------------------------------------------------------
(* C21: every note_folders and note_tags row names an existing note and an
   existing folder or tag; an add that names a missing note, folder or tag
   is rejected and inserts nothing; TagService::delete, and
   FolderService::delete of a childless folder, leave no junction row of
   the deleted tag or folder and leave the notes as they were. *)
JunctionRowsResolve ==
    /\ \A k \in DOMAIN note_folders : k[1] \in DOMAIN notes /\ k[2] \in DOMAIN folders
    /\ \A k \in note_tags : k[1] \in DOMAIN notes /\ k[2] \in DOMAIN tags

AddOfMissingRejected ==
    /\ (/\ last'.op = "NoteService::add_to_folder"
        /\ \/ last'.note_id \notin DOMAIN notes
           \/ last'.folder_id \notin DOMAIN folders)
       => last'.res # "Ok" /\ note_folders' = note_folders
    /\ (/\ last'.op = "NoteService::add_tag"
        /\ \/ last'.note_id \notin DOMAIN notes
           \/ last'.tag_id \notin DOMAIN tags)
       => last'.res # "Ok" /\ note_tags' = note_tags

HardDeleteCascades ==
    /\ (last'.op = "TagService::delete" /\ last'.res = "Ok")
       => /\ \A k \in note_tags' : k[2] # last'.id
          /\ last'.id \notin DOMAIN tags'
          /\ notes' = notes
    /\ (last'.op = "FolderService::delete" /\ last'.res = "Ok")
       => /\ \A k \in DOMAIN note_folders' : k[2] # last'.id
          /\ last'.id \notin DOMAIN folders'
          /\ notes' = notes

C21_JunctionIntegrity ==
    /\ []JunctionRowsResolve
    /\ [][AddOfMissingRejected /\ HardDeleteCascades]_vars

(* a tag and a folder that were attached to a note are gone, the note is
   still stored, and an add naming a missing parent has been refused *)
C21_Witness ==
    /\ 1 \in DOMAIN notes
    /\ nextId.tag > 1 /\ 1 \notin DOMAIN tags
    /\ nextId.folder > 1 /\ 1 \notin DOMAIN folders
    /\ nextId.link = 1 /\ nextId.block = 1
    /\ last.op = "NoteService::add_tag" /\ last.res = "Database"
    /\ last.tag_id = 1


----------------------------------------------------------------------------
(* C22: init_database can be called any number of times, also on a store
   that holds rows: it changes no row; a call that meets no fault succeeds
   and leaves exactly one schema_version row, holding SCHEMA_VERSION; on a
   store that was already initialised it changes nothing at all; and the
   version row is only ever present when every table and index exists. *)
RowsUnchanged ==
    UNCHANGED <<notes, files, blocks, folders, tags, attachments, note_folders,
                note_tags, links, block_references, fts, nextId>>

VersionWrittenLast ==
    schema_version # {} =>
        SchemaObjects \subseteq schema /\ schema_version = {SCHEMA_VERSION}

InitDatabaseStep ==
    last'.op = "init_database" =>
        /\ RowsUnchanged
        /\ last'.fault = 0 =>
              /\ last'.res = "Ok"
              /\ schema_version' = {SCHEMA_VERSION}
              /\ SchemaObjects \subseteq schema'
        /\ (last'.fault = 0 /\ StoreOpened) =>
              schema' = schema /\ schema_version' = schema_version

C22_InitIdempotent == []VersionWrittenLast /\ [][InitDatabaseStep]_vars

(* init_database has just succeeded on a store that already held a note,
   a tag and a junction row *)
C22_Witness ==
    /\ last.op = "init_database" /\ last.res = "Ok"
    /\ notes # <<>> /\ note_tags # {}
    /\ schema_version = {SCHEMA_VERSION}


----------------------------------------------------------------------------
(* C23: over NoteService create, update, delete and restore, with a clock
   that only moves forward, no step lowers the stored updated_at of any
   note (and no step removes a note). *)
C23_UpdatedAtMonotone ==
    [][\A id \in DOMAIN notes :
          /\ id \in DOMAIN notes'
          /\ notes'[id].updated_at >= notes[id].updated_at]_vars

(* a note that was updated after the clock moved, then soft-deleted and
   restored *)
C23_Witness ==
    /\ 1 \in DOMAIN notes
    /\ last.op = "NoteService::restore" /\ last.id = 1
    /\ ~notes[1].is_deleted
    /\ notes[1].updated_at > notes[1].created_at


----------------------------------------------------------------------------
(* C24: an Entity Access create that violates a uniqueness constraint (a
   duplicate id, a duplicate Attachment.hash) fails with an error of kind
   Conflict and inserts no row. *)
C24_UniqueViolationIsConflict ==
    [][(/\ last'.op = "AttachmentDao::create"
        /\ \/ last'.id \in DOMAIN attachments
           \/ ~HashFree(last'.hash))
       => /\ last'.res = "Conflict"
          /\ attachments' = attachments]_vars


----------------------------------------------------------------------------
(* C25: BlockService::create returns NotFound and inserts nothing when the
   note is missing or soft-deleted; BlockService::create_reference returns
   NotFound and inserts nothing when the source or the target block is
   missing or soft-deleted; every block names a stored note and every
   block reference names two stored blocks. *)
BlockRowsResolve ==
    /\ \A b \in DOMAIN blocks : blocks[b].note_id \in DOMAIN notes
    /\ \A i \in DOMAIN block_references :
          /\ block_references[i].source_block_id \in DOMAIN blocks
          /\ block_references[i].target_block_id \in DOMAIN blocks

CreateValidatesParents ==
    /\ (last'.op = "BlockService::create" /\ Unusable(notes, last'.note_id))
       => last'.res = "NotFound" /\ blocks' = blocks
    /\ (/\ last'.op = "BlockService::create_reference"
        /\ \/ Unusable(blocks, last'.source_block_id)
           \/ Unusable(blocks, last'.target_block_id))
       => last'.res = "NotFound" /\ block_references' = block_references

C25_BlockParentsExist == []BlockRowsResolve /\ [][CreateValidatesParents]_vars

(* a reference between two blocks exists, its source was soft-deleted
   afterwards, and a further reference from that source was refused *)
C25_Witness ==
    /\ Len(block_references) = 1
    /\ block_references[1].source_block_id # block_references[1].target_block_id
    /\ blocks[block_references[1].source_block_id].is_deleted
    /\ last.op = "BlockService::create_reference" /\ last.res = "NotFound"
    /\ last.source_block_id = block_references[1].source_block_id
    /\ last.target_block_id \in DOMAIN blocks
    /\ ~blocks[last.target_block_id].is_deleted


----------------------------------------------------------------------------
(* C26: NoteService::create and NoteService::update write the content file
   before the row, and not as one unit: when the relational write fails
   the call reports an error, the file holds the new content, and the row
   is absent (create) or unchanged, old word_count and updated_at
   included (update). *)
FailedCreateLeavesFile ==
    (last'.op = "NoteService::create" /\ last'.res # "Ok") =>
        LET path == <<last'.id, slugify(last'.title)>>
        IN  /\ path \in DOMAIN files' /\ files'[path] = last'.content
            /\ last'.id \notin DOMAIN notes'

FailedUpdateLeavesFile ==
    \A id \in NoteIds :
        (/\ last'.op = "NoteService::update" /\ last'.id = id
         /\ last'.res = "Database" /\ last'.content.some
         /\ now' = now) =>
            /\ files'[notes[id].content_path] = last'.content.v
            /\ notes'[id] = notes[id]

C26_FileBeforeRow == [][FailedCreateLeavesFile /\ FailedUpdateLeavesFile]_vars

(* a failed update left new content in the file of a note whose row still
   carries the word count and the time of an earlier write *)
C26_Witness ==
    /\ last.op = "NoteService::update" /\ last.res = "Database"
    /\ last.content.some
    /\ 1 \in DOMAIN notes
    /\ files[notes[1].content_path] = last.content.v
    /\ notes[1].word_count # count_words(files[notes[1].content_path])
    /\ notes[1].updated_at < now


----------------------------------------------------------------------------
(* C27: NoteService::list returns exactly the stored notes, and
   NoteService::search_by_title exactly the notes whose title contains
   the query as a substring (letters compared regardless of case); both
   leave out soft-deleted notes unless include_deleted is set, list no
   note twice, and are ordered by updated_at descending. *)
Lowered(s) == [i \in DOMAIN s |-> to_lowercase(s[i])]

ContainsSubstring(text, query) ==
    \E k \in 0..Len(text) :
        /\ k + Len(query) <= Len(text)
        /\ \A i \in 1..Len(query) : Lowered(text)[k + i] = Lowered(query)[i]

NewestFirst(out) ==
    /\ \A i, j \in DOMAIN out : i # j => out[i] # out[j]
    /\ \A i, j \in DOMAIN out :
          i < j => notes[out[i]].updated_at >= notes[out[j]].updated_at

Listed(include_deleted) ==
    {id \in DOMAIN notes : include_deleted \/ ~notes[id].is_deleted}

C27_ListAndSearchExact ==
    [][/\ last'.op = "NoteService::list" =>
             /\ Range(last'.out) = Listed(last'.include_deleted)
             /\ NewestFirst(last'.out)
       /\ last'.op = "NoteService::search_by_title" =>
             /\ Range(last'.out) =
                   {id \in Listed(last'.include_deleted) :
                       ContainsSubstring(notes[id].title, last'.query)}
             /\ NewestFirst(last'.out)]_vars


----------------------------------------------------------------------------
(* C28: BlockService::get_by_note returns the blocks of the note, without
   the soft-deleted ones unless include_deleted is set, in ascending
   position order, and blocks with equal position in the order in which
   they were inserted. *)
BlocksOf(note_id, include_deleted) ==
    {id \in DOMAIN blocks :
        /\ blocks[id].note_id = note_id
        /\ include_deleted \/ ~blocks[id].is_deleted}

(* block ids are handed out in insertion order *)
InsertedBefore(a, b) == a < b

C28_PositionThenInsertion ==
    [][last'.op = "BlockService::get_by_note" =>
          /\ Range(last'.out) = BlocksOf(last'.note_id, last'.include_deleted)
          /\ \A i, j \in DOMAIN last'.out :
                i < j =>
                   \/ blocks[last'.out[i]].position < blocks[last'.out[j]].position
                   \/ /\ blocks[last'.out[i]].position = blocks[last'.out[j]].position
                      /\ InsertedBefore(last'.out[i], last'.out[j])]_vars


----------------------------------------------------------------------------
(* C29: folder f is listed by get_folders_for_note(n) iff note n is listed
   by get_notes_in_folder(f), and tag t by get_tags_for_note(n) iff n by
   get_notes_with_tag(t); after a successful add both listings contain
   the pair, after a remove neither does; get_folders_for_note lists
   primary folders first and, within each group, by position. *)
FolderIdsOf(ls) == {ls[i].folder_id : i \in DOMAIN ls}

MembershipSymmetric ==
    /\ \A n \in 1..(nextId.note - 1), f \in 1..(nextId.folder - 1) :
          \A fs \in NoteFolderDao_get_folders_for_note(n),
             ns \in NoteFolderDao_get_notes_in_folder(f) :
                f \in FolderIdsOf(fs) <=> n \in Range(ns)
    /\ \A n \in 1..(nextId.note - 1), t \in 1..(nextId.tag - 1) :
          \A ts \in NoteTagDao_get_tags_for_note(n),
             ns \in NoteTagDao_get_notes_with_tag(t) :
                t \in Range(ts) <=> n \in Range(ns)

PrimaryFirstThenPosition ==
    \A n \in 1..(nextId.note - 1) :
        \A fs \in NoteFolderDao_get_folders_for_note(n) :
            \A i, j \in DOMAIN fs :
                i < j => /\ fs[j].is_primary => fs[i].is_primary
                         /\ fs[i].is_primary = fs[j].is_primary
                               => fs[i].position <= fs[j].position

FolderPairListed(n, f) ==
    /\ \A fs \in NoteFolderDao_get_folders_for_note(n) : f \in FolderIdsOf(fs)
    /\ \A ns \in NoteFolderDao_get_notes_in_folder(f) : n \in Range(ns)

FolderPairUnlisted(n, f) ==
    /\ \A fs \in NoteFolderDao_get_folders_for_note(n) : f \notin FolderIdsOf(fs)
    /\ \A ns \in NoteFolderDao_get_notes_in_folder(f) : n \notin Range(ns)

TagPairListed(n, t) ==
    /\ \A ts \in NoteTagDao_get_tags_for_note(n) : t \in Range(ts)
    /\ \A ns \in NoteTagDao_get_notes_with_tag(t) : n \in Range(ns)

TagPairUnlisted(n, t) ==
    /\ \A ts \in NoteTagDao_get_tags_for_note(n) : t \notin Range(ts)
    /\ \A ns \in NoteTagDao_get_notes_with_tag(t) : n \notin Range(ns)

AddThenListed ==
    \A n \in 1..MaxTripNotes, x \in 1..MaxRelFolders :
        /\ (/\ last'.op = "NoteService::add_to_folder" /\ last'.res = "Ok"
            /\ last'.note_id = n /\ last'.folder_id = x) => FolderPairListed(n, x)'
        /\ (/\ last'.op = "NoteService::remove_from_folder"
            /\ last'.note_id = n /\ last'.folder_id = x) => FolderPairUnlisted(n, x)'
        /\ (/\ last'.op = "NoteService::add_tag" /\ last'.res = "Ok"
            /\ last'.note_id = n /\ last'.tag_id = x) => TagPairListed(n, x)'
        /\ (/\ last'.op = "NoteService::remove_tag"
            /\ last'.note_id = n /\ last'.tag_id = x) => TagPairUnlisted(n, x)'

C29_MembershipSymmetric ==
    /\ [](MembershipSymmetric /\ PrimaryFirstThenPosition)
    /\ [][AddThenListed]_vars

(* a note in two folders, the primary one at the higher position, and
   carrying a tag *)
C29_Witness ==
    /\ \E f, g \in DOMAIN folders :
          /\ <<1, f>> \in DOMAIN note_folders /\ <<1, g>> \in DOMAIN note_folders
          /\ note_folders[<<1, f>>].is_primary /\ ~note_folders[<<1, g>>].is_primary
          /\ note_folders[<<1, f>>].position > note_folders[<<1, g>>].position
    /\ <<1, 1>> \in note_tags
    /\ last.op = "NoteService::add_tag" /\ last.res = "Ok"


----------------------------------------------------------------------------
(* C30: for every title the slug is lowercased, consists of alphanumeric
   characters and single hyphens only, neither starts nor ends with a
   hyphen, and has at most 50 characters. *)
SlugShape(s) ==
    /\ \A i \in DOMAIN s : to_lowercase(s[i]) = s[i]
    /\ \A i \in DOMAIN s : is_alphanumeric(s[i]) \/ s[i] = "-"
    /\ \A i \in DOMAIN s : (i > 1 /\ s[i] = "-") => s[i - 1] # "-"
    /\ s # <<>> => s[1] # "-" /\ s[Len(s)] # "-"
    /\ Len(s) <= SlugCap

C30_SlugShape == last.op = "NoteService::slugify" => SlugShape(last.out)


----------------------------------------------------------------------------
(* C31: when an update_note that changes only the title and one that
   changes only the content of the same note have both completed, however
   their steps interleaved, the row holds the new title and the word count
   of the new content, which is the token count of the content file. *)
BothUpdatesDone(id) ==
    \A c \in DOMAIN cmd :
        cmd[c].pc = "done" /\ cmd[c].id = id /\ cmd[c].res = "Ok"

C31_InterleavedUpdatesKept ==
    \A id \in DOMAIN notes :
        BothUpdatesDone(id) =>
            /\ notes[id].title = NewTitle
            /\ notes[id].word_count = count_words(NewContent)
            /\ notes[id].word_count = count_words(files[notes[id].content_path])




----------------------------------------------------------------------------
(* C32: the editor's history is linear.  An undo that follows an edit or a
   redo sets the buffer to the content that edit or redo found; a redo
   that follows an undo sets it back to the content that undo found; so
   undo, redo, undo, redo alternates between the same two contents. *)
Edited(l) ==
    \/ l.op = "insert_at_cursor"
    \/ l.op \in {"delete_backward", "delete_forward"} /\ l.res > 0
    \/ l.op = "redo" /\ l.res

UndoRestores ==
    (Edited(last) /\ last'.op = "undo" /\ last'.res)
        => editor'.buffer = last.before

RedoRestores ==
    (last.op = "undo" /\ last.res /\ last'.op = "redo" /\ last'.res)
        => editor'.buffer = last.before

C32_LinearHistory == [][UndoRestores /\ RedoRestores]_vars

----------------------------------------------------------------------------
(* C33: in every state of the editor the undo stack is non-empty and its
   top snapshot is the current buffer. *)
C33_TopIsBuffer ==
    /\ editor.undo_stack # <<>>
    /\ editor.undo_stack[Len(editor.undo_stack)] = editor.buffer


----------------------------------------------------------------------------
(* C34: a new edit discards the redo history: after insert_at_cursor, and
   after a delete_backward or delete_forward that removed at least one
   character, can_redo() is false; a delete that removed no character
   leaves buffer, cursor, undo stack and redo stack as they were. *)
IsDelete(l) == l.op \in {"delete_backward", "delete_forward"}

EditDiscardsRedo ==
    /\ last'.op = "insert_at_cursor" => ~can_redo'
    /\ (IsDelete(last') /\ last'.res > 0) => ~can_redo'
    /\ (IsDelete(last') /\ last'.res = 0) =>
          /\ editor'.buffer = editor.buffer
          /\ editor'.cursor = editor.cursor
          /\ editor'.undo_stack = editor.undo_stack
          /\ editor'.redo_stack = editor.redo_stack

C34_EditDiscardsRedo == [][EditDiscardsRedo]_vars

(* an insertion on top of two earlier snapshots, with nothing left to redo *)
C34_Witness ==
    /\ last.op = "insert_at_cursor" /\ ~can_redo
    /\ Len(editor.undo_stack) > 2

(* a delete that removed nothing while a redo was pending *)
C34_WitnessNoop ==
    /\ IsDelete(last) /\ last.res = 0 /\ can_redo

----------------------------------------------------------------------------
(* C36: in every state of the editor the cursor lies between 0 and the
   number of characters of the buffer, inclusive. *)
C36_CursorInBuffer ==
    /\ editor.cursor >= 0
    /\ editor.cursor <= Len(editor.buffer)

(* the cursor was asked beyond the end of a buffer and stands at its end,
   and an undo that shortened the buffer pulled the cursor back *)
C36_WitnessClamped ==
    /\ last.op = "set_cursor" /\ last.arg > Len(editor.buffer)
    /\ editor.cursor = Len(editor.buffer) /\ editor.buffer # <<>>

C36_WitnessUndo ==
    /\ last.op = "undo" /\ last.res
    /\ Len(last.before) > Len(editor.buffer)
    /\ editor.cursor = Len(editor.buffer)


----------------------------------------------------------------------------
(* C35: undo returns false exactly when can_undo() is false and redo
   returns false exactly when can_redo() is false; a call that returned
   false leaves buffer, cursor and both stacks as they were; a call that
   returned true leaves the buffer on another snapshot of the history,
   different from the content it found; the initial content stays at the
   bottom of the undo stack. *)
Snapshots == Range(editor.undo_stack) \cup Range(editor.redo_stack)

UndoRedoResults ==
    /\ last'.op = "undo" => (last'.res <=> can_undo)
    /\ last'.op = "redo" => (last'.res <=> can_redo)
    /\ (last'.op \in {"undo", "redo"} /\ ~last'.res) =>
          /\ editor'.buffer = editor.buffer
          /\ editor'.cursor = editor.cursor
          /\ editor'.undo_stack = editor.undo_stack
          /\ editor'.redo_stack = editor.redo_stack
    /\ (last'.op \in {"undo", "redo"} /\ last'.res) =>
          /\ editor'.buffer \in Snapshots
          /\ editor'.buffer # editor.buffer

InitialContentKept ==
    /\ editor.undo_stack # <<>>
    /\ editor.undo_stack[1] = <<>>

C35_UndoRedoResults == []InitialContentKept /\ [][UndoRedoResults]_vars

----------------------------------------------------------------------------
(* C37: in every state of the editor both endpoints of a stored selection
   are at most the number of characters of the buffer. *)
C37_SelectionInBuffer ==
    editor.selection.some =>
        /\ editor.selection.v[1] <= Len(editor.buffer)
        /\ editor.selection.v[2] <= Len(editor.buffer)

----------------------------------------------------------------------------
(* C38: delete_backward(n) removes the min(n, cursor) characters just
   before the cursor, moves the cursor back by as many, keeps the text
   after the cursor and returns that number; delete_forward(n) removes the
   min(n, length - cursor) characters just after the cursor, keeps the
   cursor and returns that number. *)
DeleteBackwardExact ==
    last'.op = "delete_backward" =>
        LET b == editor.buffer
            k == Min(last'.arg, editor.cursor)
        IN  /\ last'.res = k
            /\ editor'.cursor = editor.cursor - k
            /\ editor'.buffer = SubSeq(b, 1, editor.cursor - k)
                                \o SubSeq(b, editor.cursor + 1, Len(b))

DeleteForwardExact ==
    last'.op = "delete_forward" =>
        LET b == editor.buffer
            k == Min(last'.arg, Len(b) - editor.cursor)
        IN  /\ last'.res = k
            /\ editor'.cursor = editor.cursor
            /\ editor'.buffer = SubSeq(b, 1, editor.cursor)
                                \o SubSeq(b, editor.cursor + k + 1, Len(b))

C38_DeletesExact == [][DeleteBackwardExact /\ DeleteForwardExact]_vars

(* the forward half alone, which the code keeps *)
C38_ForwardOnly == [][DeleteForwardExact]_vars




----------------------------------------------------------------------------
(* C39: for every sequence of Markdown events, the blocks of
   parse_markdown_to_blocks have the positions 0..n-1 in list order, carry
   the note_id given to the call, and have non-empty, trimmed content; a
   Start event met inside a code block saves nothing, so the text of a
   code block is not split. *)
BlocksWellFormed ==
    parse.pc # "idle" =>
        \A i \in 1..Len(parse.blocks) :
            /\ parse.blocks[i].position = i - 1
            /\ parse.blocks[i].note_id = parse.note_id
            /\ parse.blocks[i].content # <<>>
            /\ trim(parse.blocks[i].content) = parse.blocks[i].content

NestedStartKeepsText ==
    (/\ last'.op = "parse_event" /\ last'.event.k = "Start"
     /\ parse.in_code_block) =>
        /\ parse'.blocks = parse.blocks
        /\ parse'.current_content = parse.current_content

C39_ParsedBlocks == []BlocksWellFormed /\ [][NestedStartKeepsText]_vars

(* a call that returned a fenced code block with its language followed by
   a horizontal rule *)
C39_Witness ==
    /\ parse.pc = "returned" /\ Len(parse.blocks) = 2
    /\ parse.blocks[1].block_type = "code_block"
    /\ Len(parse.blocks[1].content) > 8
    /\ parse.blocks[2].block_type = "horizontal_rule"

(* a Start event that found text accumulated inside a code block *)
C39_WitnessNested ==
    /\ parse.pc = "events"
    /\ last.op = "parse_event" /\ last.event.k = "Start" /\ last.in_code_block
    /\ trim(parse.current_content) # <<>>
    /\ parse.blocks = <<>>


----------------------------------------------------------------------------
(* C40: every stored block_reference link names as source_note_id an
   existing note that is not deleted and owns the link's source block, has
   a target_block_id and no target_note_id; every stored note_link has a
   target_note_id and no target_block_id. *)
BlockReferenceShape(link) ==
    /\ link.source_note_id \in DOMAIN notes
    /\ ~notes[link.source_note_id].is_deleted
    /\ link.source_block_id \in DOMAIN blocks
    /\ blocks[link.source_block_id].note_id = link.source_note_id
    /\ link.target_block_id # NULL
    /\ link.target_note_id = NULL

NoteLinkShape(link) ==
    /\ link.target_note_id # NULL
    /\ link.target_block_id = NULL

C40_LinkShape ==
    \A i \in DOMAIN links :
        /\ links[i].link_type = "block_reference" => BlockReferenceShape(links[i])
        /\ links[i].link_type = "note_link" => NoteLinkShape(links[i])

(* the same for the link a creation has just stored *)
CreatedShape == BlockReferenceShape(last.link)

C40_ShapeAtCreation ==
    [][(/\ last'.op = "LinkService::create_block_reference"
        /\ last'.res = "Ok") => CreatedShape']_vars

====
